---- MODULE Spec2Model ----
(***************************************************************************)
(* Model of the image-acquisition waterfall of src/server.js: the handler  *)
(* of POST /api/find-image together with extractKeywords, fetchRound,      *)
(* scoreImage / pickBestFromBatch and generateWithDalle.                   *)
(*                                                                         *)
(* Every await of the handler is a position (pc); every continuation that  *)
(* runs between two awaits is one action.  Outcomes of external calls      *)
(* (planner, sources, judge, generator, download, upload) are chosen       *)
(* nondeterministically when the call settles.                             *)
(***************************************************************************)
EXTENDS Integers, Sequences, FiniteSets, TLC

\* ---------------------------------------------------------------- bounds

\* Most candidates the sources of one round return together in the request
\* model.
MaxItems == 2

\* Longest batch handed to pickBestFromBatch in the batch model.
MaxBatch == 4

\* Most tokens a meter of the ledger holds in the ledger model.
MaxTokens == 4

\* ------------------------------------------------------ program constants

\* per_page: 8 (Pexels, Unsplash), num: 8 / slice(0, 8) (SerpApi).
PageSize == 8

\* combined.length < 15 in fetchRound.
BatchCap == 15

\* const threshold = min_score || 7.
DefaultThreshold == 7

\* score: 9 of the object generateWithDalle returns.
DalleScore == 9

\* Scores the judge may report in the request model.
Scores == {1, 6, 10}

\* Judge answers <<score, has_forbidden_brand>> of the request model: every
\* score unflagged, and the top score flagged.
Answers == (Scores \X {FALSE}) \cup {<<10, TRUE>>}

\* <<min_score, main_entity is non-null>> of the planner replies the model
\* draws; min_score 0 stands for an omitted one (undefined is falsy, as is 0).
Intents == {<<0, TRUE>>, <<0, FALSE>>, <<2, FALSE>>, <<10, TRUE>>}

\* Sources in the order fetchRound interleaves them.
SERP == "serp_google_images"
PEXELS == "pexels"
UNSPLASH == "unsplash"
DALLE == "openai_dalle3"
Sources == {SERP, PEXELS, UNSPLASH}

VARIABLES
  pc,           \* position of the handler: which await it is suspended at
  SERP_KEY,     \* process.env.SERP_KEY is set
  context,      \* what extractKeywords returned
  threshold,    \* const threshold of the handler
  round,        \* the round whose fetchRound / pickBestFromBatch is running
  pending,      \* per source: the promise fetchRound awaits
  candidates,   \* the batch (combined) of the current round
  results,      \* per candidate: the promise Promise.allSettled awaits
  imageResult,  \* let imageResult of the handler
  costs,        \* const costs = freshCosts()
  response,     \* what res.json / res.status(..).json sent
  calls,        \* history: outbound calls issued so far
  minScore,     \* the minScore argument of the running pickBestFromBatch
  peer,         \* the handler invocation of another request, while suspended
  outcomes      \* what the sources and the judge answer, where that is fixed

vars == <<pc, SERP_KEY, context, threshold, round, pending, candidates,
          results, imageResult, costs, response, calls, minScore, peer,
          outcomes>>

\* ------------------------------------------------------------- data shapes

\* null, as a value comparable with scored candidates.
Null == [source |-> "null", idx |-> 0, round |-> 0, score |-> 0,
         has_forbidden_brand |-> FALSE]

\* The i-th object a source maps out of its response in round r.
Candidate(s, i, r) == [source |-> s, idx |-> i, round |-> r]

\* The list a source returns when its response holds n items.
SourceResult(s, n, r) == [i \in 1..n |-> Candidate(s, i, r)]

\* response.data.usage of the two chat-completion calls.
Usages == {[prompt_tokens |-> 2, completion_tokens |-> 1]}

\* PRICE, in units of 1e-8 USD.
PRICE == [gpt4omini |-> [input |-> 15, output |-> 60],
          gpt4o     |-> [input |-> 250, output |-> 1000],
          dalle3    |-> 8000000,
          serp      |-> 100000]

calcTokenCost(p, inputTokens, outputTokens) ==
  (inputTokens * p.input) + (outputTokens * p.output)

freshCosts ==
  [keyword_extraction |-> [input_tokens |-> 0, output_tokens |-> 0, usd |-> 0],
   vision_scoring     |-> [calls |-> 0, input_tokens |-> 0, output_tokens |-> 0,
                           usd |-> 0],
   serp_api           |-> [calls |-> 0, usd |-> 0],
   dalle3             |-> [calls |-> 0, usd |-> 0],
   total_usd          |-> 0]

\* ------------------------------------------------------------- fetchRound

Max(a, b) == IF a >= b THEN a ELSE b

\* if (x[i]) combined.push(x[i])
PushIf(combined, x, i) == IF i <= Len(x) THEN Append(combined, x[i]) ELSE combined

\* for (let i = 0; i < maxLen && combined.length < 15; i++) { ... }
RECURSIVE InterleaveLoop(_, _, _, _, _)
InterleaveLoop(serp, pexels, unsplash, i, combined) ==
  LET maxLen == Max(Len(serp), Max(Len(pexels), Len(unsplash)))
  IN  IF i <= maxLen /\ Len(combined) < BatchCap
      THEN InterleaveLoop(serp, pexels, unsplash, i + 1,
             PushIf(PushIf(PushIf(combined, serp, i), pexels, i), unsplash, i))
      ELSE combined

\* Faulty variant: the three lists concatenated instead of interleaved.
InterleaveConcat(serp, pexels, unsplash) ==
  SubSeq(serp \o pexels \o unsplash, 1,
         IF Len(serp) + Len(pexels) + Len(unsplash) < BatchCap
         THEN Len(serp) + Len(pexels) + Len(unsplash) ELSE BatchCap)

\* The value fetchRound resolves to, given what its three promises resolved to.
Interleave(serp, pexels, unsplash) ==
  InterleaveLoop(serp, pexels, unsplash, 1, <<>>)

\* A promise of fetchRound's Promise.all.
NotCalled == [status |-> "skipped", value |-> <<>>]
InFlight == [status |-> "pending", value |-> <<>>]

\* Faulty variant: the source call without its .catch handler.
Uncaught(p) == p

\* searchX(query).catch(e => { console.warn(..); return []; }): the promise
\* Promise.all is given for a source call that settled as p.
Caught(p) ==
  IF p.status = "rejected" THEN [status |-> "fulfilled", value |-> <<>>] ELSE p

\* Promise.all([...]) rejects as soon as one of its promises is rejected.
AllRejects(ps) == \E s \in Sources : ps[s].status = "rejected"

\* const [pexels, unsplash, serp] = await Promise.all([...]); then the merge.
fetchRound(ps) == Interleave(ps[SERP].value, ps[PEXELS].value, ps[UNSPLASH].value)

\* ------------------------------------------------------ pickBestFromBatch

\* An unsettled scoreImage promise.
Unsettled == [status |-> "pending", score |-> 0, has_forbidden_brand |-> FALSE,
              usage |-> [prompt_tokens |-> 0, completion_tokens |-> 0]]

\* scoreImage threw (request error, or JSON.parse of the reply failed).
Rejected == [status |-> "rejected", score |-> 0, has_forbidden_brand |-> FALSE,
             usage |-> [prompt_tokens |-> 0, completion_tokens |-> 0]]

\* scoreImage returned { ...candidate, score, reason, has_forbidden_brand, _usage }.
Fulfilled(sc, flag, u) == [status |-> "fulfilled", score |-> sc,
                           has_forbidden_brand |-> flag, usage |-> u]

\* result = r.value: the candidate extended with the judge's answer.
Scored(c, r) == [source |-> c.source, idx |-> c.idx, round |-> c.round,
                 score |-> r.score, has_forbidden_brand |-> r.has_forbidden_brand]

\* costs.vision_scoring after one more fulfilled result.
AccumulateVision(c, u) ==
  LET inT  == c.vision_scoring.input_tokens + u.prompt_tokens
      outT == c.vision_scoring.output_tokens + u.completion_tokens
  IN  [c EXCEPT !.vision_scoring =
         [calls |-> c.vision_scoring.calls + 1, input_tokens |-> inT,
          output_tokens |-> outT, usd |-> calcTokenCost(PRICE.gpt4o, inT, outT)]]

\* Faulty variant: every scored result is ranked, flagged or not.
KeepAll(scored, result) == Append(scored, result)

\* if (!result.has_forbidden_brand) scored.push(result)
KeepUnflagged(scored, result) ==
  IF ~result.has_forbidden_brand THEN Append(scored, result) ELSE scored

\* Faulty variant: a flagged result is passed over before it is metered.
RECURSIVE ScoreLoopUnflagged(_, _, _, _)
ScoreLoopUnflagged(cands, res, k, acc) ==
  IF k > Len(res) THEN acc
  ELSE IF res[k].status = "rejected" \/ res[k].has_forbidden_brand
       THEN ScoreLoopUnflagged(cands, res, k + 1, acc)
  ELSE ScoreLoopUnflagged(cands, res, k + 1,
         [scored |-> Append(acc.scored, Scored(cands[k], res[k])),
          costs  |-> AccumulateVision(acc.costs, res[k].usage)])

\* Faulty variant: the first rejected result ends the loop, the results
\* after it are never looked at.
RECURSIVE ScoreLoopStopsAtFailure(_, _, _, _)
ScoreLoopStopsAtFailure(cands, res, k, acc) ==
  IF k > Len(res) THEN acc
  ELSE IF res[k].status = "rejected" THEN acc
  ELSE ScoreLoopStopsAtFailure(cands, res, k + 1,
         [scored |-> KeepUnflagged(acc.scored, Scored(cands[k], res[k])),
          costs  |-> AccumulateVision(acc.costs, res[k].usage)])

\* for (const r of results) { ... }: the scored list and the ledger after it.
RECURSIVE ScoreLoop(_, _, _, _)
ScoreLoop(cands, res, k, acc) ==
  IF k > Len(res) THEN acc
  ELSE IF res[k].status = "rejected" THEN ScoreLoop(cands, res, k + 1, acc)
  ELSE ScoreLoop(cands, res, k + 1,
         [scored |-> KeepUnflagged(acc.scored, Scored(cands[k], res[k])),
          costs  |-> AccumulateVision(acc.costs, res[k].usage)])

\* Faulty variant: a sort that puts the later of two equal scores first.
RECURSIVE InsertDescLater(_, _)
InsertDescLater(sorted, x) ==
  IF sorted = <<>> THEN <<x>>
  ELSE IF Head(sorted).score > x.score
       THEN <<Head(sorted)>> \o InsertDescLater(Tail(sorted), x)
       ELSE <<x>> \o sorted

\* Where a stable descending sort puts x in an already sorted list.
RECURSIVE InsertDesc(_, _)
InsertDesc(sorted, x) ==
  IF sorted = <<>> THEN <<x>>
  ELSE IF Head(sorted).score >= x.score
       THEN <<Head(sorted)>> \o InsertDesc(Tail(sorted), x)
       ELSE <<x>> \o sorted

\* scored.sort((a, b) => b.score - a.score)
RECURSIVE SortDesc(_)
SortDesc(scored) ==
  IF scored = <<>> THEN <<>>
  ELSE InsertDesc(SortDesc(SubSeq(scored, 1, Len(scored) - 1)), scored[Len(scored)])

\* Faulty variant: the best candidate must exceed the threshold.
GateStrict(best, floor) == IF best.score > floor THEN best ELSE Null

\* Faulty variant: the best candidate is returned without a threshold test.
GateNone(best, floor) == best

\* if (best.score >= minScore) return best; ... return null;
Gate(best, floor) == IF best.score >= floor THEN best ELSE Null

\* Faulty variant: Promise.all in place of Promise.allSettled, one rejection losing
\* the whole batch.
pickBestAll(cands, res, floor, c) ==
  IF \E k \in 1..Len(res) : res[k].status = "rejected"
  THEN [best |-> Null, costs |-> c]
  ELSE LET acc == ScoreLoop(cands, res, 1, [scored |-> <<>>, costs |-> c])
       IN  IF Len(acc.scored) = 0 THEN [best |-> Null, costs |-> acc.costs]
           ELSE [best |-> Gate(SortDesc(acc.scored)[1], floor),
                 costs |-> acc.costs]

\* Faulty variant: the vision meter is started afresh for every batch.
pickBestFresh(cands, res, floor, c) ==
  LET c0  == [c EXCEPT !.vision_scoring = freshCosts.vision_scoring]
      acc == ScoreLoop(cands, res, 1, [scored |-> <<>>, costs |-> c0])
  IN  IF Len(acc.scored) = 0 THEN [best |-> Null, costs |-> acc.costs]
      ELSE [best |-> Gate(SortDesc(acc.scored)[1], floor), costs |-> acc.costs]

\* pickBestFromBatch once Promise.allSettled has resolved: the value it
\* returns and the ledger it leaves.
pickBestFromBatch(cands, res, floor, c) ==
  IF Len(cands) = 0 THEN [best |-> Null, costs |-> c]
  ELSE LET acc == ScoreLoop(cands, res, 1, [scored |-> <<>>, costs |-> c])
       IN  IF Len(acc.scored) = 0 THEN [best |-> Null, costs |-> acc.costs]
           ELSE [best |-> Gate(SortDesc(acc.scored)[1], floor),
                 costs |-> acc.costs]

\* ------------------------------------------------------------ the handler

Rounds == 1..3

\* A query string: <<>> is an absent (null or empty) one, <<kind, r>> the
\* r-th query the planner wrote for that kind of source.
NoQuery == <<>>
Query(kind, r) == <<kind, r>>

\* The sets of rounds whose query the planner may leave out.
AbsentSets == {{}, {1}, Rounds}

\* search_queries: per round the stock query, absent for the rounds of A.
StockPlan(A) == [r \in Rounds |-> IF r \in A THEN NoQuery ELSE Query("stock", r)]

\* serp_queries: per round the web-search query, absent for the rounds of A.
SerpPlan(A) == [r \in Rounds |-> IF r \in A THEN NoQuery ELSE Query("web", r)]

StockPlans == {StockPlan(A) : A \in AbsentSets}

\* <<>> is a planner reply without serp_queries (the array itself is falsy).
SerpPlans == {<<>>} \cup {SerpPlan(A) : A \in AbsentSets \ {Rounds}}

\* context before extractKeywords has returned: nothing is assigned yet, so
\* no planner reply (whose search_queries has three entries) equals it.
NoContext == [min_score |-> 0, main_entity |-> FALSE,
              search_queries |-> <<>>, serp_queries |-> <<>>]

NoResponse == [status |-> 0, success |-> FALSE, error |-> "", image |-> Null,
               cost_breakdown |-> freshCosts]

NoCalls == [planner  |-> 0,
            source   |-> [x \in Rounds \X Sources |-> <<>>],
            dalle    |-> 0,
            download |-> 0,
            upload   |-> 0]

\* Faulty variant: the stock query of the first variant is used in every round.
pexelsQueryFirst(ctx, r) == ctx.search_queries[1]

\* search_queries[N - 1] / serp_queries ? serp_queries[N - 1] : null
pexelsQuery(ctx, r) == ctx.search_queries[r]
unsplashQuery(ctx, r) == ctx.search_queries[r]
serpQuery(ctx, r) == IF ctx.serp_queries # <<>> THEN ctx.serp_queries[r] ELSE NoQuery

\* The query fetchRound would hand to source s in round r.
QueryFor(ctx, s, r) ==
  CASE s = PEXELS   -> pexelsQuery(ctx, r)
    [] s = UNSPLASH -> unsplashQuery(ctx, r)
    [] s = SERP     -> serpQuery(ctx, r)

\* Faulty variant: the web search is called whenever it has a query, key or
\* no key.
ApplicableByQuery(ctx, s, r) == QueryFor(ctx, s, r) # NoQuery

\* The conditions under which fetchRound calls a source.
Applicable(ctx, s, r) ==
  CASE s = PEXELS   -> pexelsQuery(ctx, r) # NoQuery
    [] s = UNSPLASH -> unsplashQuery(ctx, r) # NoQuery
    [] s = SERP     -> serpQuery(ctx, r) # NoQuery /\ SERP_KEY

\* Faulty variant: rounds 2 and 3 both lowered by one point.
MinScoreFlat(t, r) ==
  CASE r = 1 -> t
    [] r = 2 -> t - 1
    [] r = 3 -> t - 1

\* Faulty variant: a round whose variant has no query does not count, the
\* threshold is lowered only after rounds that had something to search.
MinScoreSkipping(t, r) ==
  t - Cardinality({q \in 1..(r - 1) :
                     pexelsQuery(context, q) # NoQuery
                       \/ serpQuery(context, q) # NoQuery})

\* Faulty variant: every round is held to the base threshold.
MinScoreNoDecay(t, r) == t

\* Faulty variant: the threshold of a round is clamped to the lowest score
\* of the rubric.
MinScoreClamped(t, r) ==
  LET m == t - (r - 1) IN IF m < 1 THEN 1 ELSE m

\* threshold, threshold - 1, threshold - 2: the minScore argument of round r.
MinScoreArg(t, r) ==
  CASE r = 1 -> t
    [] r = 2 -> t - 1
    [] r = 3 -> t - 2

\* res.status(400 | 500).json({ success: false, error })
Failure(status, msg) == [NoResponse EXCEPT !.status = status, !.error = msg]

\* Faulty variant: the total adds up the two token costs only.
FinalizeTokens(c) ==
  [c EXCEPT !.total_usd = c.keyword_extraction.usd + c.vision_scoring.usd]

\* costs.total_usd = sum of the four usd entries.
Finalize(c) ==
  [c EXCEPT !.total_usd = c.keyword_extraction.usd + c.vision_scoring.usd
                          + c.serp_api.usd + c.dalle3.usd]

\* One unit of the sixth decimal of a dollar, in ledger units of 1e-8 USD.
Micro == 100

Abs(x) == IF x < 0 THEN -x ELSE x

\* +x.toFixed(6): x rounded to the nearest multiple of Micro. A decimal tie
\* (x ends in ...5e-7) is not a tie for the double that holds x, which lies
\* just above or just below it: both outcomes are kept.
toFixed6(x) ==
  LET down == (x \div Micro) * Micro
      rest == x % Micro
  IN  IF rest * 2 < Micro THEN {down}
      ELSE IF rest * 2 > Micro THEN {down + Micro}
      ELSE {down, down + Micro}

\* The cost_breakdown objects res.json can carry for the finalized ledger c:
\* the counts as they are, every usd figure through toFixed(6) on its own.
Breakdowns(c) ==
  {[c EXCEPT !.keyword_extraction.usd = k, !.vision_scoring.usd = v,
             !.serp_api.usd = s, !.dalle3.usd = d, !.total_usd = t] :
     k \in toFixed6(c.keyword_extraction.usd),
     v \in toFixed6(c.vision_scoring.usd),
     s \in toFixed6(c.serp_api.usd),
     d \in toFixed6(c.dalle3.usd),
     t \in toFixed6(c.total_usd)}

\* The handler calls fetchRound for round r: every applicable source is called.
StartRound(ctx, r, c, k) ==
  /\ pc' = "fetching"
  /\ round' = r
  /\ pending' = [s \in Sources |-> IF Applicable(ctx, s, r) THEN InFlight ELSE NotCalled]
  /\ calls' = [k EXCEPT !.source =
                 [x \in Rounds \X Sources |->
                    IF x[1] = r /\ Applicable(ctx, x[2], r)
                    THEN Append(@[x], QueryFor(ctx, x[2], r)) ELSE @[x]]]
  /\ candidates' = <<>>
  /\ results' = <<>>
  /\ costs' = c

\* The handler calls generateWithDalle.
StartDalle(c, k) ==
  /\ pc' = "generating"
  /\ pending' = [s \in Sources |-> NotCalled]
  /\ calls' = [k EXCEPT !.dalle = @ + 1]
  /\ candidates' = <<>>
  /\ results' = <<>>
  /\ costs' = c
  /\ UNCHANGED round

\* The handler awaits downloadImage(imageResult.url, tempPath).
StartDownload(c, k) ==
  /\ pc' = "downloading"
  /\ calls' = [k EXCEPT !.download = @ + 1]
  /\ costs' = c
  /\ UNCHANGED <<round, pending, candidates, results>>

\* Faulty variant: the guards of the later rounds always pass.
AlwaysNull(img) == TRUE

\* !imageResult
IsNull(img) == img = Null

\* Faulty variant: the generated image is asked for as soon as one round has
\* ended without a winner.
AfterRoundEager(r, img, c, k) ==
  IF IsNull(img) THEN StartDalle(c, k) ELSE StartDownload(c, k)

\* What follows round r in the handler, imageResult being img:
\* if (!imageResult) { round r + 1 } ... if (!imageResult) { DALL-E } ...
\* and with a winner every such block is passed over, down to the download.
AfterRound(r, img, c, k) ==
  IF IsNull(img)
  THEN IF r < 3 THEN StartRound(context, r + 1, c, k) ELSE StartDalle(c, k)
  ELSE StartDownload(c, k)

\* The catch block: the request ends with a failure response.
Fail(status, msg) ==
  /\ pc' = "responded"
  /\ response' = Failure(status, msg)

\* Nothing is fixed: every call settles in any of the ways it can.
NoOutcomes == [source |-> <<>>, judge |-> <<>>]

\* No other request is being served.
NoPeer == [id |-> 0]

Init ==
  /\ pc = "received"
  /\ SERP_KEY \in BOOLEAN
  /\ peer = NoPeer
  /\ outcomes = NoOutcomes
  /\ context = NoContext
  /\ threshold = 0
  /\ round = 0
  /\ pending = [s \in Sources |-> NotCalled]
  /\ candidates = <<>>
  /\ results = <<>>
  /\ imageResult = Null
  /\ costs = freshCosts
  /\ response = NoResponse
  /\ calls = NoCalls
  /\ minScore = 0

\* if (!linkedin_post) return res.status(400)...
RejectEmpty ==
  /\ pc = "received"
  /\ Fail(400, "linkedin_post is required")
  /\ UNCHANGED <<SERP_KEY, peer, outcomes, context, threshold, round, pending, candidates,
                 results, imageResult, costs, calls, minScore>>

\* const costs = freshCosts(); ... await extractKeywords(linkedin_post, costs)
Receive ==
  /\ pc = "received"
  /\ pc' = "planning"
  /\ costs' = freshCosts
  /\ calls' = [calls EXCEPT !.planner = @ + 1]
  /\ UNCHANGED <<SERP_KEY, peer, outcomes, context, threshold, round, pending, candidates,
                 results, imageResult, response, minScore>>

\* costs.keyword_extraction after the planner's reply arrived.
AccumulateKeyword(c, u) ==
  LET inT  == c.keyword_extraction.input_tokens + u.prompt_tokens
      outT == c.keyword_extraction.output_tokens + u.completion_tokens
  IN  [c EXCEPT !.keyword_extraction =
         [input_tokens |-> inT, output_tokens |-> outT,
          usd |-> calcTokenCost(PRICE.gpt4omini, inT, outT)]]

\* axios.post of extractKeywords rejects: the handler's catch answers 500.
PlanRequestFails ==
  /\ pc = "planning"
  /\ Fail(500, "planner request failed")
  /\ UNCHANGED <<SERP_KEY, peer, outcomes, context, threshold, round, pending, candidates,
                 results, imageResult, costs, calls, minScore>>

\* Faulty variant: an unparseable planner reply is not fatal, the handler
\* falls back on the generated image.
PlanParseFallback ==
  /\ pc = "planning"
  /\ \E u \in Usages : StartDalle(AccumulateKeyword(costs, u), calls)
  /\ UNCHANGED <<SERP_KEY, peer, outcomes, context, threshold, imageResult, response, minScore>>

\* The reply arrived and was metered, but JSON.parse of its content throws.
PlanParseFails ==
  /\ pc = "planning"
  /\ \E u \in Usages : costs' = AccumulateKeyword(costs, u)
  /\ Fail(500, "planner output unparseable")
  /\ UNCHANGED <<SERP_KEY, peer, outcomes, context, threshold, round, pending, candidates,
                 results, imageResult, calls, minScore>>

\* extractKeywords returned: threshold is fixed and round 1 starts.
PlanReturns ==
  /\ pc = "planning"
  /\ \E it \in Intents, sq \in StockPlans, gq \in SerpPlans, u \in Usages :
       LET m   == it[1]
           ctx == [min_score |-> m, main_entity |-> it[2],
                   search_queries |-> sq, serp_queries |-> gq]
       IN  /\ context' = ctx
           /\ threshold' = (IF m # 0 THEN m ELSE DefaultThreshold)
           /\ StartRound(ctx, 1, AccumulateKeyword(costs, u), calls)
  /\ UNCHANGED <<SERP_KEY, peer, outcomes, imageResult, response, minScore>>

\* Faulty variant: the web-search meter is set, not advanced.
SerpMeteredOnce(c) ==
  [c EXCEPT !.serp_api = [calls |-> 1, usd |-> PRICE.serp]]

\* searchSerpApi meters its call once the response has arrived.
SerpMetered(c) ==
  [c EXCEPT !.serp_api = [calls |-> @.calls + 1, usd |-> (@.calls + 1) * PRICE.serp]]

\* How many candidates the settled sources of the round have returned.
Delivered(p) == Len(p[SERP].value) + Len(p[PEXELS].value) + Len(p[UNSPLASH].value)

\* Faulty variant: a source call that fails is issued again.
SourceSettlesRetry ==
  /\ pc = "fetching"
  /\ \E s \in Sources :
       /\ pending[s].status = "pending"
       /\ \/ \E n \in 0..(MaxItems - Delivered(pending)) :
               /\ pending' = [pending EXCEPT ![s] =
                    [status |-> "fulfilled", value |-> SourceResult(s, n, round)]]
               /\ costs' = IF s = SERP THEN SerpMetered(costs) ELSE costs
               /\ calls' = calls
          \/ /\ Len(calls.source[<<round, s>>]) < 2
             /\ pending' = pending
             /\ costs' = costs
             /\ calls' = [calls EXCEPT !.source[<<round, s>>] =
                             Append(@, QueryFor(context, s, round))]
  /\ UNCHANGED <<pc, SERP_KEY, peer, outcomes, context, threshold, round, candidates,
                 results, imageResult, response, minScore>>

\* One source call of the current round settles.
SourceSettles ==
  /\ pc = "fetching"
  /\ \E s \in Sources :
       /\ pending[s].status = "pending"
       /\ \/ \E n \in 0..(MaxItems - Delivered(pending)) :
               /\ pending' = [pending EXCEPT ![s] =
                    [status |-> "fulfilled", value |-> SourceResult(s, n, round)]]
               /\ costs' = IF s = SERP THEN SerpMetered(costs) ELSE costs
          \/ /\ pending' = [pending EXCEPT ![s] =
                              [status |-> "rejected", value |-> <<>>]]
             /\ costs' = costs
  /\ UNCHANGED <<pc, SERP_KEY, peer, outcomes, context, threshold, round, candidates, results,
                 imageResult, response, calls, minScore>>

\* Faulty variant: the judges are awaited on every batch, empty or not.
FetchReturnsUnguarded ==
  /\ pc = "fetching"
  /\ \A s \in Sources : pending[s].status # "pending"
  /\ LET ps == [s \in Sources |-> Caught(pending[s])]
         combined == fetchRound(ps)
     IN  /\ pc' = "scoring"
         /\ candidates' = combined
         /\ results' = [i \in 1..Len(combined) |-> Unsettled]
         /\ minScore' = MinScoreArg(threshold, round)
         /\ pending' = [s \in Sources |-> NotCalled]
  /\ UNCHANGED <<SERP_KEY, peer, outcomes, context, threshold, imageResult, round, costs,
                 calls, response>>

\* Faulty variant: the round goes on as soon as one source has settled, the
\* others counting as empty.
FetchReturnsEarly ==
  /\ pc = "fetching"
  /\ \/ \E s \in Sources : pending[s].status \in {"fulfilled", "rejected"}
     \/ \A s \in Sources : pending[s].status # "pending"
  /\ LET ps == [s \in Sources |->
                 IF pending[s].status = "pending"
                 THEN [status |-> "fulfilled", value |-> <<>>]
                 ELSE Caught(pending[s])]
         combined == fetchRound(ps)
     IN  IF Len(combined) > 0
         THEN /\ pc' = "scoring"
              /\ candidates' = combined
              /\ results' = [i \in 1..Len(combined) |-> Unsettled]
              /\ minScore' = MinScoreArg(threshold, round)
              /\ pending' = [s \in Sources |-> NotCalled]
              /\ UNCHANGED <<round, costs, calls, response>>
         ELSE /\ AfterRound(round, imageResult, costs, calls)
              /\ UNCHANGED <<minScore, response>>
  /\ UNCHANGED <<SERP_KEY, peer, outcomes, context, threshold, imageResult>>

\* Promise.all of fetchRound resolved: the batch is merged; a non-empty batch
\* goes to pickBestFromBatch, which calls scoreImage on every candidate.
FetchReturns ==
  /\ pc = "fetching"
  /\ \A s \in Sources : pending[s].status # "pending"
  /\ LET ps == [s \in Sources |-> Caught(pending[s])]
         combined == fetchRound(ps)
     IN  IF AllRejects(ps)
         THEN /\ Fail(500, "source request failed")
              /\ UNCHANGED <<round, pending, candidates, results, costs, calls,
                             minScore>>
         ELSE IF Len(combined) > 0
         THEN /\ pc' = "scoring"
              /\ candidates' = combined
              /\ results' = [i \in 1..Len(combined) |-> Unsettled]
              /\ minScore' = MinScoreArg(threshold, round)
              /\ pending' = [s \in Sources |-> NotCalled]
              /\ UNCHANGED <<round, costs, calls, response>>
         ELSE /\ AfterRound(round, imageResult, costs, calls)
              /\ UNCHANGED <<minScore, response>>
  /\ UNCHANGED <<SERP_KEY, peer, outcomes, context, threshold, imageResult>>

\* One scoreImage call of the batch settles.
JudgeSettles ==
  /\ pc = "scoring"
  /\ \E i \in 1..Len(results) :
       /\ results[i].status = "pending"
       /\ \/ \E a \in Answers, u \in Usages :
               results' = [results EXCEPT ![i] = Fulfilled(a[1], a[2], u)]
          \/ results' = [results EXCEPT ![i] = Rejected]
  /\ UNCHANGED <<pc, SERP_KEY, peer, outcomes, context, threshold, round, pending, candidates,
                 imageResult, costs, response, calls, minScore>>

\* Promise.allSettled resolved: pickBestFromBatch returns its winner or null.
BatchReturns ==
  /\ pc = "scoring"
  /\ \A i \in 1..Len(results) : results[i].status # "pending"
  /\ LET out == pickBestFromBatch(candidates, results, minScore, costs)
     IN  /\ imageResult' = out.best
         /\ AfterRound(round, out.best, out.costs, calls)
  /\ UNCHANGED <<SERP_KEY, peer, outcomes, context, threshold, response, minScore>>

\* Faulty variant: the generated image is held to the base threshold.
DalleGated ==
  /\ pc = "generating"
  /\ IF DalleScore >= threshold
     THEN /\ imageResult' = [source |-> DALLE, idx |-> 1, round |-> 0,
                             score |-> DalleScore, has_forbidden_brand |-> FALSE]
          /\ StartDownload([costs EXCEPT !.dalle3 =
                              [calls |-> @.calls + 1,
                               usd |-> (@.calls + 1) * PRICE.dalle3]], calls)
          /\ UNCHANGED response
     ELSE /\ Fail(500, "All image sources failed")
          /\ costs' = [costs EXCEPT !.dalle3 =
                         [calls |-> @.calls + 1,
                          usd |-> (@.calls + 1) * PRICE.dalle3]]
          /\ UNCHANGED <<round, pending, candidates, results, imageResult, calls>>
  /\ UNCHANGED <<SERP_KEY, peer, outcomes, context, threshold, minScore>>

\* Faulty variant: the generated image is accepted but not metered.
DalleUnmetered ==
  /\ pc = "generating"
  /\ imageResult' = [source |-> DALLE, idx |-> 1, round |-> 0,
                     score |-> DalleScore, has_forbidden_brand |-> FALSE]
  /\ StartDownload(costs, calls)
  /\ UNCHANGED <<SERP_KEY, peer, outcomes, context, threshold, response, minScore>>

\* generateWithDalle returned: metered, accepted without a judge.
DalleReturns ==
  /\ pc = "generating"
  /\ imageResult' = [source |-> DALLE, idx |-> 1, round |-> 0,
                     score |-> DalleScore, has_forbidden_brand |-> FALSE]
  /\ StartDownload([costs EXCEPT !.dalle3 =
                      [calls |-> @.calls + 1,
                       usd |-> (@.calls + 1) * PRICE.dalle3]], calls)
  /\ UNCHANGED <<SERP_KEY, peer, outcomes, context, threshold, response, minScore>>

\* Faulty variant: a failed last resort is not thrown on, the handler goes on
\* to the download with no image.
DalleFailsSilently ==
  /\ pc = "generating"
  /\ StartDownload(costs, calls)
  /\ UNCHANGED <<SERP_KEY, peer, outcomes, context, threshold, imageResult, response, minScore>>

\* generateWithDalle rejected: .catch gives null, then
\* if (!imageResult) throw new Error('All image sources failed').
DalleFails ==
  /\ pc = "generating"
  /\ Fail(500, "All image sources failed")
  /\ UNCHANGED <<SERP_KEY, peer, outcomes, context, threshold, round, pending, candidates,
                 results, imageResult, costs, calls, minScore>>

\* downloadImage resolved: uploadToDrive is awaited next.
DownloadReturns ==
  /\ pc = "downloading"
  /\ pc' = "uploading"
  /\ calls' = [calls EXCEPT !.upload = @ + 1]
  /\ UNCHANGED <<SERP_KEY, peer, outcomes, context, threshold, round, pending, candidates,
                 results, imageResult, costs, response, minScore>>

\* Faulty variant: when the download of a round's winner fails, the winner
\* is dropped and the waterfall goes on with the next round, or with the
\* generative provider after round 3.
DownloadFailsTryNext ==
  /\ pc = "downloading"
  /\ IF imageResult.source = DALLE
     THEN /\ Fail(500, "download failed")
          /\ UNCHANGED <<round, pending, candidates, results, imageResult, costs,
                         calls, minScore>>
     ELSE /\ imageResult' = Null
          /\ AfterRound(round, Null, costs, calls)
          /\ UNCHANGED <<minScore, response>>
  /\ UNCHANGED <<SERP_KEY, peer, outcomes, context, threshold>>

\* downloadImage rejected (timeout, bad image): the catch answers 500.
DownloadFails ==
  /\ pc = "downloading"
  /\ Fail(500, "download failed")
  /\ UNCHANGED <<SERP_KEY, peer, outcomes, context, threshold, round, pending, candidates,
                 results, imageResult, costs, calls, minScore>>

\* uploadToDrive resolved: costs are finalized and the success response sent.
UploadReturns ==
  /\ pc = "uploading"
  /\ pc' = "responded"
  /\ costs' = Finalize(costs)
  /\ \E b \in Breakdowns(Finalize(costs)) :
       response' = [status |-> 200, success |-> TRUE, error |-> "",
                    image |-> imageResult, cost_breakdown |-> b]
  /\ UNCHANGED <<SERP_KEY, peer, outcomes, context, threshold, round, pending, candidates,
                 results, imageResult, calls, minScore>>

\* Faulty variant: a failed upload is answered as a success that carries the
\* image found and the error.
UploadFailsDegraded ==
  /\ pc = "uploading"
  /\ pc' = "responded"
  /\ response' = [status |-> 200, success |-> TRUE, error |-> "upload failed",
                  image |-> imageResult, cost_breakdown |-> costs]
  /\ UNCHANGED <<SERP_KEY, peer, outcomes, context, threshold, round, pending, candidates,
                 results, imageResult, costs, calls, minScore>>

\* uploadToDrive rejected: the catch answers 500.
UploadFails ==
  /\ pc = "uploading"
  /\ Fail(500, "upload failed")
  /\ UNCHANGED <<SERP_KEY, peer, outcomes, context, threshold, round, pending, candidates,
                 results, imageResult, costs, calls, minScore>>

Next ==
  \/ RejectEmpty
  \/ Receive
  \/ PlanRequestFails
  \/ PlanParseFails
  \/ PlanReturns
  \/ SourceSettles
  \/ FetchReturns
  \/ JudgeSettles
  \/ BatchReturns
  \/ DalleReturns
  \/ DalleFails
  \/ DownloadReturns
  \/ DownloadFails
  \/ UploadReturns
  \/ UploadFails

Spec == Init /\ [][Next]_vars

\* ------------------------------------------------- fetchRound on its own

\* What a source call of fetchRound can have settled as: failed, or returned
\* 0..PageSize candidates.
SettledSource(s) ==
  {[status |-> "rejected", value |-> <<>>]}
  \cup {[status |-> "fulfilled", value |-> SourceResult(s, n, 1)] : n \in 0..PageSize}

\* The ledger and the call history when round 1 awaits its sources, the
\* planner having replied with every query present.
FullContext == [NoContext EXCEPT !.search_queries = StockPlan({}),
                                 !.serp_queries = SerpPlan({})]
PlannedCosts == AccumulateKeyword(freshCosts, CHOOSE u \in Usages : TRUE)
PlannedCalls(called) ==
  [NoCalls EXCEPT !.planner = 1,
                  !.source = [x \in Rounds \X Sources |->
                                IF x[1] = 1 /\ x[2] \in called
                                THEN <<QueryFor(FullContext, x[2], 1)>> ELSE <<>>]]

\* A round whose source calls have all settled, in every combination.
InitMerge ==
  /\ pc = "fetching"
  /\ SERP_KEY = TRUE
  /\ peer = NoPeer
  /\ outcomes = NoOutcomes
  /\ context = FullContext
  /\ threshold = DefaultThreshold
  /\ round = 1
  /\ pending \in [Sources -> UNION {SettledSource(s) : s \in Sources}]
  /\ \A s \in Sources : pending[s] \in SettledSource(s)
  /\ candidates = <<>>
  /\ results = <<>>
  /\ imageResult = Null
  /\ costs = IF pending[SERP].status = "fulfilled"
             THEN SerpMetered(PlannedCosts) ELSE PlannedCosts
  /\ response = NoResponse
  /\ calls = PlannedCalls(Sources)
  /\ minScore = 0

\* fetchRound returns its merged batch.
MergeReturns ==
  /\ pc = "fetching"
  /\ LET ps == [s \in Sources |-> Caught(pending[s])]
     IN  IF AllRejects(ps)
         THEN /\ Fail(500, "source request failed")
              /\ UNCHANGED candidates
         ELSE /\ pc' = "merged"
              /\ candidates' = fetchRound(ps)
              /\ UNCHANGED response
  /\ UNCHANGED <<SERP_KEY, peer, outcomes, context, threshold, round, pending, results,
                 imageResult, costs, calls, minScore>>

NextMerge == MergeReturns

SpecMerge == InitMerge /\ [][NextMerge]_vars

\* ------------------------------------------- pickBestFromBatch on its own

\* The thresholds the batch model draws: acceptThreshold is 1..10.
Floors == 1..10

\* A batch of n candidates as fetchRound would merge it from three sources.
Batch(n) ==
  SubSeq(Interleave(SourceResult(SERP, n, 1), SourceResult(PEXELS, n, 1),
                    SourceResult(UNSPLASH, n, 1)), 1, n)

\* pickBestFromBatch has been called on a batch and awaits its judges.
InitBatch ==
  /\ pc = "scoring"
  /\ SERP_KEY = TRUE
  /\ peer = NoPeer
  /\ outcomes = NoOutcomes
  /\ context = FullContext
  /\ minScore \in Floors
  /\ threshold = minScore
  /\ round = 1
  /\ pending = [s \in Sources |-> NotCalled]
  /\ \E n \in 1..MaxBatch : /\ candidates = Batch(n)
                            /\ results = [i \in 1..n |-> Unsettled]
  /\ imageResult = Null
  /\ costs = SerpMetered(PlannedCosts)
  /\ response = NoResponse
  /\ calls = PlannedCalls(Sources)

\* One scoreImage call settles, with any score and any flag, or fails.
JudgeAnswers ==
  /\ pc = "scoring"
  /\ \E i \in 1..Len(results) :
       /\ results[i].status = "pending"
       /\ \/ \E sc \in Scores, flag \in BOOLEAN, u \in Usages :
               results' = [results EXCEPT ![i] = Fulfilled(sc, flag, u)]
          \/ results' = [results EXCEPT ![i] = Rejected]
  /\ UNCHANGED <<pc, SERP_KEY, peer, outcomes, context, threshold, round, pending, candidates,
                 imageResult, costs, response, minScore, calls>>

\* pickBestFromBatch returns.
BatchDone ==
  /\ pc = "scoring"
  /\ \A i \in 1..Len(results) : results[i].status # "pending"
  /\ LET out == pickBestFromBatch(candidates, results, minScore, costs)
     IN  /\ imageResult' = out.best
         /\ costs' = out.costs
  /\ pc' = "returned"
  /\ UNCHANGED <<SERP_KEY, peer, outcomes, context, threshold, round, pending, candidates,
                 results, response, minScore, calls>>

NextBatch == JudgeAnswers \/ BatchDone

SpecBatch == InitBatch /\ [][NextBatch]_vars

\* ===================================================================== claims

\* The candidate behind a (scored) record.
Identity(x) == [source |-> x.source, idx |-> x.idx, round |-> x.round]

\* Indexes of the batch whose judge call succeeded.
ScoredIdx == {i \in 1..Len(results) : results[i].status = "fulfilled"}

\* Indexes of the batch whose judge call succeeded with the brand flag set.
FlaggedIdx == {i \in ScoredIdx : results[i].has_forbidden_brand}

\* E of the reference definition: scored and not brand-violating.
EligibleIdx == ScoredIdx \ FlaggedIdx

\* The highest score among the indexes of S (S non-empty).
MaxScore(S) == CHOOSE m \in {results[i].score : i \in S} :
                 \A i \in S : results[i].score <= m

\* Indexes of the batch the returned winner stands at.
WinnerIdx == {i \in 1..Len(candidates) : candidates[i] = Identity(imageResult)}

\* C1: pickBestFromBatch never returns a candidate whose judge result has the
\* brand-violation flag set, whatever its score and the scores of the others.
C1_NeverBrandViolating ==
  pc = "returned" =>
    /\ ~imageResult.has_forbidden_brand
    /\ \A i \in FlaggedIdx : candidates[i] # Identity(imageResult)

\* C1 witness: a flagged candidate scored 10, every other candidate scored
\* lower, and the reduction returned one of the others.
C1_Witness ==
  /\ pc = "returned"
  /\ Len(candidates) >= 2
  /\ \E i \in FlaggedIdx :
       /\ results[i].score = 10
       /\ \A j \in (1..Len(results)) \ {i} :
            j \in EligibleIdx /\ results[j].score < 10
  /\ imageResult # Null

\* C6: the batch reduction equals its reference definition: null when no
\* candidate is eligible or the best eligible score is below the threshold,
\* else an eligible candidate carrying the maximum eligible score.
C6_ReductionMatchesReference ==
  pc = "returned" =>
    IF EligibleIdx = {} \/ MaxScore(EligibleIdx) < minScore
    THEN imageResult = Null
    ELSE \E i \in EligibleIdx :
           /\ imageResult = Scored(candidates[i], results[i])
           /\ imageResult.score = MaxScore(EligibleIdx)

\* C6 witness: a flagged candidate holds the highest score and a lower-scored
\* eligible candidate that clears the threshold wins.
C6_Witness ==
  /\ pc = "returned"
  /\ FlaggedIdx # {}
  /\ EligibleIdx # {}
  /\ MaxScore(FlaggedIdx) > MaxScore(EligibleIdx)
  /\ imageResult # Null
  /\ imageResult.score = MaxScore(EligibleIdx)
  /\ imageResult.score >= minScore

\* Priority of a source in the merge: web search, then Pexels, then Unsplash.
Priority(s) == CASE s = SERP -> 1 [] s = PEXELS -> 2 [] s = UNSPLASH -> 3

\* a is merged before b by a round-robin in priority order.
Before(a, b) ==
  \/ a.idx < b.idx
  \/ a.idx = b.idx /\ Priority(a.source) < Priority(b.source)

\* The round-robin merge of the lists of ps, stated by position: the k-th
\* element is the item that has exactly k - 1 items before it.
RoundRobin(ps) ==
  LET items == UNION {{ps[s].value[i] : i \in 1..Len(ps[s].value)} : s \in Sources}
  IN  [k \in 1..Cardinality(items) |->
         CHOOSE x \in items : Cardinality({y \in items : Before(y, x)}) = k - 1]

\* What the sources of the round delivered: a failed or skipped one, nothing.
DeliveredLists ==
  [s \in Sources |-> IF pending[s].status = "fulfilled" THEN pending[s]
                     ELSE [status |-> "fulfilled", value |-> <<>>]]

\* C7: the merged batch is the round-robin of the source lists in the order
\* web search, Pexels, Unsplash: a prefix of it made of whole interleave steps,
\* and all of it when it holds no more than 15 items; sources A (3 items) and
\* B (1 item) merge to A0, B0, A1, A2.
C7_RoundRobinMerge ==
  pc = "merged" =>
    LET ref == RoundRobin(DeliveredLists)
        n   == Len(candidates)
    IN  /\ n <= Len(ref)
        /\ candidates = SubSeq(ref, 1, n)
        /\ Len(ref) <= BatchCap => n = Len(ref)
        /\ n > 0 => n = Cardinality({k \in 1..Len(ref) : ref[k].idx <= candidates[n].idx})
        /\ ( /\ Len(DeliveredLists[SERP].value) = 3
             /\ Len(DeliveredLists[PEXELS].value) = 1
             /\ Len(DeliveredLists[UNSPLASH].value) = 0 )
           => candidates = <<Candidate(SERP, 1, 1), Candidate(PEXELS, 1, 1),
                             Candidate(SERP, 2, 1), Candidate(SERP, 3, 1)>>

\* C7 witness: three sources of different lengths were merged, the shortest
\* exhausted first and the others continuing.
C7_Witness ==
  /\ pc = "merged"
  /\ Len(pending[SERP].value) = 3
  /\ Len(pending[PEXELS].value) = 1
  /\ Len(pending[UNSPLASH].value) = 2
  /\ candidates = <<Candidate(SERP, 1, 1), Candidate(PEXELS, 1, 1),
                   Candidate(UNSPLASH, 1, 1), Candidate(SERP, 2, 1),
                   Candidate(UNSPLASH, 2, 1), Candidate(SERP, 3, 1)>>

\* C8: the batch fetchRound returns never holds more than 15 candidates.
C8_BatchWithinCap ==
  pc = "merged" => Len(candidates) <= BatchCap

\* C2: the minScore handed to the batch reduction of round N is
\* threshold - (N - 1), and threshold never changes once planning has fixed it.
C2_ThresholdDecay ==
  [][ /\ pc' = "scoring" => minScore' = threshold' - (round' - 1)
      /\ pc \notin {"received", "planning"} => threshold' = threshold ]_vars

\* C2 witness: round 3 is being scored after earlier rounds scored candidates
\* and found no winner.
C2_Witness ==
  /\ pc = "scoring"
  /\ round = 3
  /\ costs.vision_scoring.calls > 0
  /\ minScore = threshold - 2

\* The rounds after r issued no source call.
NoLaterRound(r) ==
  \A q \in Rounds : q > r => \A s \in Sources : calls.source[<<q, s>>] = <<>>

\* C3: once the reduction of round N has returned a winner, the handler is
\* past every round: no source call of a later round, no judge call and no
\* generative call is ever made.
C3_ShortCircuit ==
  imageResult.source \in Sources =>
    /\ pc \in {"downloading", "uploading", "responded"}
    /\ round = imageResult.round
    /\ NoLaterRound(imageResult.round)
    /\ calls.dalle = 0
    /\ costs.dalle3.calls = 0

\* C3 witness: round 1 returned a winner scoring at least the base threshold,
\* the plan held queries for rounds 2 and 3, and the request succeeded.
C3_Witness ==
  /\ response.success
  /\ imageResult.round = 1
  /\ imageResult.score >= threshold
  /\ context.search_queries[2] # NoQuery
  /\ context.search_queries[3] # NoQuery
  /\ NoLaterRound(1)
  /\ calls.dalle = 0

\* Round 3 has ended and no round returned a winner.
NoRoundWon ==
  /\ round = 3
  /\ pc \notin {"fetching", "scoring"}
  /\ imageResult.source \notin Sources

\* C4: the generative provider is called exactly once when all three rounds
\* ended without a winner (and never otherwise), and a call that succeeded
\* (it is metered) is accepted as it is, whatever the threshold.
C4_GenerativeFallback ==
  /\ calls.dalle = (IF NoRoundWon THEN 1 ELSE 0)
  /\ costs.dalle3.calls = 1 =>
       /\ imageResult.source = DALLE
       /\ pc \in {"downloading", "uploading", "responded"}
  /\ imageResult.source = DALLE =>
       /\ costs.dalle3.calls = 1
       /\ imageResult.score = DalleScore

\* C4 witness: base threshold 10, the generated image (score 9) was accepted
\* and the request succeeded.
C4_Witness ==
  /\ threshold = 10
  /\ imageResult.source = DALLE
  /\ imageResult.score < threshold
  /\ calls.dalle = 1
  /\ response.success

\* C5: a winner that came from a retrieval round was scored in that very
\* round, is not brand-violating and scores at least that round's threshold.
C5_AcceptedClearsOwnRound ==
  imageResult.source \in Sources =>
    /\ imageResult.round = round
    /\ ~imageResult.has_forbidden_brand
    /\ imageResult.score >= threshold - (round - 1)
    /\ \E i \in 1..Len(candidates) :
         /\ candidates[i] = Identity(imageResult)
         /\ results[i].status = "fulfilled"
         /\ results[i].score = imageResult.score
         /\ ~results[i].has_forbidden_brand

\* C5 witness: round 2 accepted a candidate below the base threshold after
\* round 1 had scored candidates without accepting any.
C5_Witness ==
  /\ imageResult.source \in Sources
  /\ imageResult.round = 2
  /\ imageResult.score = threshold - 1
  /\ costs.vision_scoring.calls > Cardinality(ScoredIdx)
  /\ response.success

\* Every source call of the round has settled.
AllSettled == \A s \in Sources : pending[s].status # "pending"

\* C9: a failed source call counts as an empty result: no step of the fetch
\* phase fails the request, the round's batch is the round-robin of what the
\* succeeding sources returned, and a round that got nothing moves on to the
\* next round (to the generative call after round 3).
C9_SourceFailureIsolated ==
  [][ pc = "fetching" =>
        /\ pc' # "responded"
        /\ response' = NoResponse
        /\ AllSettled =>
             IF RoundRobin(DeliveredLists) # <<>>
             THEN /\ pc' = "scoring"
                  /\ round' = round
                  /\ candidates' = RoundRobin(DeliveredLists)
             ELSE IF round < 3
                  THEN pc' = "fetching" /\ round' = round + 1
                  ELSE pc' = "generating" ]_vars

\* C9 witness: the web-search call of round 1 was made and failed (it was
\* never metered), and the round went on to score the stock candidates.
C9_Witness ==
  /\ pc = "scoring"
  /\ round = 1
  /\ Len(calls.source[<<1, SERP>>]) = 1
  /\ costs.serp_api.calls = 0
  /\ Len(candidates) = 2
  /\ candidates[1].source = PEXELS
  /\ candidates[2].source = UNSPLASH

\* The elements of seq at the indexes of S, in order.
RECURSIVE Keep(_, _, _)
Keep(seq, S, k) ==
  IF k > Len(seq) THEN <<>>
  ELSE (IF k \in S THEN <<seq[k]>> ELSE <<>>) \o Keep(seq, S, k + 1)

\* C10: a failed judge call only removes its candidate from the ranking: the
\* reduction returns what it returns on the batch without the failed
\* candidates, and never a candidate whose judge call failed.
C10_JudgeFailureIsolated ==
  pc = "returned" =>
    /\ response = NoResponse
    /\ imageResult = pickBestFromBatch(Keep(candidates, ScoredIdx, 1),
                                       Keep(results, ScoredIdx, 1),
                                       minScore, freshCosts).best
    /\ \A i \in WinnerIdx : i \in ScoredIdx

\* C10 witness: one judge call failed, three succeeded, and the winner is one
\* of the three.
C10_Witness ==
  /\ pc = "returned"
  /\ Len(candidates) = 4
  /\ Cardinality(ScoredIdx) = 3
  /\ results[2].status = "rejected"
  /\ imageResult # Null
  /\ WinnerIdx \subseteq ScoredIdx

\* ------------------------------------------------------ the last resort

\* The request has ended on the error thrown after the last resort.
Exhausted ==
  pc = "responded" /\ response.error = "All image sources failed"

\* generateWithDalle was called and did not return an image.
GenerativeFailed ==
  calls.dalle = 1 /\ pc # "generating" /\ imageResult.source # DALLE

\* C11: the request ends with 'All image sources failed' exactly when the
\* three rounds ended without a winner and the one generative call failed;
\* whenever the generative call succeeded, whatever sources or judge calls
\* failed before it, the request does not end with that error.
C11_ExhaustedOnlyByGenerativeFailure ==
  /\ Exhausted <=> (NoRoundWon /\ GenerativeFailed /\ pc = "responded")
  /\ Exhausted => (imageResult = Null /\ response.status = 500
                     /\ ~response.success /\ calls.dalle = 1
                     /\ calls.download = 0)
  /\ costs.dalle3.calls = 1 => ~Exhausted

\* C11 witness: a request that ended exhausted after three rounds in which
\* the web search was called and failed each time, and the one candidate
\* that was scored was refused.
C11_Witness ==
  /\ Exhausted
  /\ round = 3
  /\ \A r \in Rounds : calls.source[<<r, SERP>>] # <<>>
  /\ costs.serp_api.calls = 0
  /\ Len(results) = 0
  /\ costs.vision_scoring.calls = 1
  /\ costs.dalle3.calls = 0

\* ------------------------------------------------------ planner failure

\* extractKeywords was called and threw: context was never assigned.
PlannerFailed ==
  calls.planner = 1 /\ pc # "planning" /\ context = NoContext

\* C12: when the planner's call fails or its reply cannot be parsed, the
\* request ends at once with a failure response: round 1 is never entered and
\* no source, judge, generative, download or upload call is made.
C12_PlannerFailureIsFatal ==
  PlannerFailed =>
    /\ pc = "responded"
    /\ response.status = 500 /\ ~response.success /\ response.image = Null
    /\ response.error \in {"planner request failed", "planner output unparseable"}
    /\ round = 0
    /\ \A x \in Rounds \X Sources : calls.source[x] = <<>>
    /\ \A s \in Sources : pending[s] = NotCalled
    /\ candidates = <<>> /\ results = <<>> /\ imageResult = Null
    /\ costs.vision_scoring.calls = 0 /\ costs.serp_api.calls = 0
    /\ costs.dalle3.calls = 0
    /\ calls.dalle = 0 /\ calls.download = 0 /\ calls.upload = 0

\* C12 witness: the planner's reply arrived (it is metered) and could not be
\* parsed; the request has ended.
C12_Witness ==
  /\ PlannerFailed
  /\ pc = "responded"
  /\ costs.keyword_extraction.input_tokens > 0
  /\ response.error = "planner output unparseable"

\* ------------------------------------------------------ base threshold

\* C13: when the planner's reply carries no min_score, the base threshold is
\* 7 for a post that names an entity (main_entity non-null) and 6 otherwise.
C13_DefaultByEntity ==
  (context # NoContext /\ context.min_score = 0) =>
    threshold = (IF context.main_entity THEN 7 ELSE 6)

\* ------------------------------------------------------ web-search meter

\* How many times searchSerpApi has been called so far in the request.
SerpInvocations ==
  Len(calls.source[<<1, SERP>>]) + Len(calls.source[<<2, SERP>>])
    + Len(calls.source[<<3, SERP>>])

\* The step in which the web-search call of the current round returns.
SerpAnswers ==
  /\ pc = "fetching"
  /\ pending[SERP].status = "pending"
  /\ pending'[SERP].status = "fulfilled"

\* C14 as claimed: every web-search invocation meters one unit, so whenever
\* no web-search call is in flight the ledger's count equals the number of
\* invocations made so far.
C14_EveryInvocationMetered ==
  pending[SERP].status # "pending" => costs.serp_api.calls = SerpInvocations

\* C14 amended: the meter advances by exactly one in the step in which a
\* web-search call returns, whatever the number of results (zero included),
\* and in no other step; a call that failed or is still in flight is not
\* metered, so the count never exceeds the invocations made.
C14_AnsweredInvocationMetered ==
  [][/\ costs'.serp_api.calls
          = costs.serp_api.calls + (IF SerpAnswers THEN 1 ELSE 0)
     /\ costs'.serp_api.usd = costs'.serp_api.calls * PRICE.serp
     /\ costs'.serp_api.calls <= SerpInvocations']_vars

\* C14 witness: the web search of round 3 returned no result and is metered;
\* three invocations were made, one of which failed, and two are metered.
C14_Witness ==
  /\ pc = "fetching"
  /\ round = 3
  /\ pending[SERP].status = "fulfilled"
  /\ pending[SERP].value = <<>>
  /\ SerpInvocations = 3
  /\ costs.serp_api.calls = 2

\* ------------------------------------------------------ vision meter

\* The step in which pickBestFromBatch returns to the handler.
BatchEnds == pc = "scoring" /\ pc' # "scoring"

C16_EveryGenerativeCallMetered ==
  pc = "responded" => costs.dalle3.calls = calls.dalle

\* C16 amended: the generative meter counts the generative calls that
\* returned an image: it is 1 when the request's image is the generated one
\* and 0 otherwise, that is when a round accepted a candidate (no call was
\* made) or when the one call failed (the request ends exhausted).
C16_ReturnedGenerativeCallMetered ==
  /\ costs.dalle3.calls = (IF imageResult.source = DALLE THEN 1 ELSE 0)
  /\ costs.dalle3.usd = costs.dalle3.calls * PRICE.dalle3
  /\ costs.dalle3.calls <= calls.dalle
  /\ calls.dalle <= 1
  /\ imageResult.source \in Sources => calls.dalle = 0
  /\ Exhausted => (calls.dalle = 1 /\ costs.dalle3.calls = 0)
  /\ response.success =>
       response.cost_breakdown.dalle3.calls
         = (IF response.image.source \in Sources THEN 0 ELSE 1)

\* C16 witness: a request answered with the generated image, one generative
\* call made and one metered in the returned breakdown.
C16_Witness ==
  /\ pc = "responded"
  /\ response.success
  /\ response.image.source = DALLE
  /\ calls.dalle = 1
  /\ response.cost_breakdown.dalle3.calls = 1
  /\ response.cost_breakdown.dalle3.usd = PRICE.dalle3

\* ------------------------------------------- the finalized ledger on its own

\* The ledgers the handler can hold when the upload is awaited: the planner
\* metered, n judge calls metered, k web searches metered, and the generated
\* image metered when it is the request's image (j = 1).
Ledger(a, b, n, c, d, k, j) ==
  [keyword_extraction |-> [input_tokens |-> a, output_tokens |-> b,
                           usd |-> calcTokenCost(PRICE.gpt4omini, a, b)],
   vision_scoring     |-> [calls |-> n, input_tokens |-> c, output_tokens |-> d,
                           usd |-> calcTokenCost(PRICE.gpt4o, c, d)],
   serp_api           |-> [calls |-> k, usd |-> k * PRICE.serp],
   dalle3             |-> [calls |-> j, usd |-> j * PRICE.dalle3],
   total_usd          |-> 0]

\* Every judge call that is metered reports at least one token each way.
VisionMeters ==
  {m \in (0..2) \X (0..MaxTokens) \X (0..MaxTokens) :
     IF m[1] = 0 THEN m[2] = 0 /\ m[3] = 0 ELSE m[2] >= m[1] /\ m[3] >= m[1]}

\* The handler awaits uploadToDrive in round 3 or after the last resort, with
\* any ledger the calls before it can have left.
InitCost ==
  /\ pc = "uploading"
  /\ SERP_KEY = TRUE
  /\ peer = NoPeer
  /\ outcomes = NoOutcomes
  /\ context = FullContext
  /\ threshold = DefaultThreshold
  /\ round = 3
  /\ pending = [s \in Sources |-> NotCalled]
  /\ candidates = <<>>
  /\ results = <<>>
  /\ minScore = MinScoreArg(DefaultThreshold, 3)
  /\ response = NoResponse
  /\ \E a \in 1..MaxTokens, b \in 1..MaxTokens, m \in VisionMeters,
        k \in 0..3, j \in 0..1 :
       /\ j = 0 => m[1] > 0
       /\ costs = Ledger(a, b, m[1], m[2], m[3], k, j)
       /\ imageResult =
            (IF j = 1
             THEN [source |-> DALLE, idx |-> 1, round |-> 0,
                   score |-> DalleScore, has_forbidden_brand |-> FALSE]
             ELSE Scored(Candidate(PEXELS, 1, 3), Fulfilled(10, FALSE, <<>>)))
       /\ calls = [planner |-> 1,
                   source |-> [x \in Rounds \X Sources |->
                                 <<QueryFor(FullContext, x[2], x[1])>>],
                   dalle |-> j, download |-> 1, upload |-> 1]

NextCost == UploadReturns \/ UploadFails

SpecCost == InitCost /\ [][NextCost]_vars

\* ------------------------------------------------------ ledger total

\* The four usd entries of a ledger or of a breakdown, added up.
SumOfEntries(c) ==
  c.keyword_extraction.usd + c.vision_scoring.usd + c.serp_api.usd + c.dalle3.usd

SourceDown ==
  /\ SourceSettles
  /\ \A s \in Sources : pending'[s].value = <<>>

\* The handler when no source ever returns a candidate: no batch is scored.
NextDown ==
  \/ RejectEmpty
  \/ Receive
  \/ PlanRequestFails
  \/ PlanParseFails
  \/ PlanReturns
  \/ SourceDown
  \/ FetchReturns
  \/ DalleReturns
  \/ DalleFails
  \/ DownloadReturns
  \/ DownloadFails
  \/ UploadReturns
  \/ UploadFails

SpecDown == Init /\ [][NextDown]_vars

\* C18: when no source returns a candidate in any round, no judge call is
\* ever made (no batch is scored, the vision meter stays 0), the generative
\* fallback is called once, after round 3, its image is accepted as it is,
\* and the ledger of the response holds one planner entry, no vision entry
\* and one generated image.
C18_AllRoundsEmpty ==
  /\ pc # "scoring" /\ candidates = <<>> /\ results = <<>>
  /\ costs.vision_scoring.calls = 0 /\ costs.vision_scoring.usd = 0
  /\ (round = 3 /\ pc # "fetching") => calls.dalle = 1
  /\ calls.dalle = 1 => round = 3
  /\ calls.dalle \in {0, 1}
  /\ pc \in {"downloading", "uploading"} =>
       (imageResult.source = DALLE /\ costs.dalle3.calls = 1)
  /\ response.success =>
       LET b == response.cost_breakdown
       IN  /\ response.image.source = DALLE
           /\ calls.planner = 1
           /\ \E u \in Usages :
                /\ b.keyword_extraction.input_tokens = u.prompt_tokens
                /\ b.keyword_extraction.output_tokens = u.completion_tokens
           /\ b.vision_scoring.calls = 0
           /\ b.vision_scoring.input_tokens = 0
           /\ b.dalle3.calls = 1

\* C18 witness: every source was called in every round, the web search
\* failed each time and the stock sources gave nothing; the response carries
\* the generated image.
C18_Witness ==
  /\ pc = "responded"
  /\ response.success
  /\ \A x \in Rounds \X Sources : calls.source[x] # <<>>
  /\ costs.serp_api.calls = 0
  /\ response.image.source = DALLE
  /\ response.cost_breakdown.dalle3.calls = 1

\* ------------------------------------------------------ absent variants

\* The planner's variant for round q has neither a stock nor a web query.
VariantAbsent(q) ==
  /\ context # NoContext
  /\ context.search_queries[q] = NoQuery
  /\ (context.serp_queries = <<>> \/ context.serp_queries[q] = NoQuery)

\* C19: a round whose variant has no query at all is gone through with an
\* empty batch (no source called, nothing scored, no winner from it) and
\* still counts as a round: every later round searches with the queries of
\* its own variant and scores against the base threshold lowered once per
\* round before it, the absent one included.
C19_AbsentVariantStillARound ==
  \A q \in Rounds :
    VariantAbsent(q) =>
      /\ \A s \in Sources : calls.source[<<q, s>>] = <<>>
      /\ round = q => (pc # "scoring" /\ candidates = <<>>)
      /\ imageResult.round # q
      /\ (round > q /\ pc \in {"fetching", "scoring"}) =>
           /\ \A s \in Sources :
                calls.source[<<round, s>>]
                  \in {<<>>, <<QueryFor(context, s, round)>>}
           /\ pc = "scoring" =>
                /\ minScore = threshold - (round - 1)
                /\ \A i \in 1..Len(candidates) : candidates[i].round = round

\* C19 witness: the planner gave no query, stock or web, for round 1; round 2
\* scores candidates found with its own queries against the base threshold
\* less one.
C19_Witness ==
  /\ pc = "scoring"
  /\ round = 2
  /\ VariantAbsent(1)
  /\ context.serp_queries # <<>>
  /\ threshold = DefaultThreshold
  /\ minScore = DefaultThreshold - 1
  /\ Len(candidates) = 2
  /\ candidates[1] = Candidate(SERP, 1, 2)
  /\ calls.source[<<2, SERP>>] = <<Query("web", 2)>>

\* ------------------------------------------------------ applicable sources

\* C20: a source is called in a round only when it applies there: a stock
\* source only with a stock query for that round, the web search only with
\* a web query for that round and the key configured, each at most once per
\* round; without the key the web search is never called, contributes no
\* candidate and its meter stays 0 for the whole request.
C20_OnlyApplicableSourcesCalled ==
  /\ \A r \in Rounds, s \in Sources :
       calls.source[<<r, s>>] # <<>> =>
         /\ context # NoContext
         /\ r <= round
         /\ Len(calls.source[<<r, s>>]) = 1
         /\ s \in {PEXELS, UNSPLASH} => context.search_queries[r] # NoQuery
         /\ s = SERP => /\ SERP_KEY
                        /\ context.serp_queries # <<>>
                        /\ context.serp_queries[r] # NoQuery
  /\ \A s \in Sources :
       pending[s] # NotCalled => (pc = "fetching" /\ calls.source[<<round, s>>] # <<>>)
  /\ ~SERP_KEY =>
       /\ \A r \in Rounds : calls.source[<<r, SERP>>] = <<>>
       /\ costs.serp_api.calls = 0 /\ costs.serp_api.usd = 0
       /\ \A i \in 1..Len(candidates) : candidates[i].source # SERP
       /\ imageResult.source # SERP
       /\ response.cost_breakdown.serp_api.calls = 0

\* C20 witness: the planner gave web queries for all three rounds but the key
\* is not configured; the request went through the three rounds on the stock
\* sources alone and succeeded with a round 3 stock image, web meter at 0.
C20_Witness ==
  /\ ~SERP_KEY
  /\ context.serp_queries = SerpPlan({})
  /\ pc = "responded"
  /\ response.success
  /\ response.image.source = PEXELS
  /\ response.image.round = 3
  /\ \A r \in Rounds : calls.source[<<r, PEXELS>>] # <<>>
  /\ response.cost_breakdown.serp_api.calls = 0

\* ------------------------------------------------------ variants in order

\* C21: what round r searched with is the r-th variant of the planner's reply
\* and nothing else: a recorded stock call carries search_queries[r], a
\* recorded web call carries serp_queries[r], both stock sources get the same
\* query, and a round that is over called every source whose query its
\* own variant holds, so no variant is passed over, repeated or moved.
C21_VariantsInPlannerOrder ==
  \A r \in Rounds :
    /\ \A s \in {PEXELS, UNSPLASH} :
         calls.source[<<r, s>>] # <<>> =>
           calls.source[<<r, s>>] = <<context.search_queries[r]>>
    /\ calls.source[<<r, SERP>>] # <<>> =>
         calls.source[<<r, SERP>>] = <<context.serp_queries[r]>>
    /\ calls.source[<<r, PEXELS>>] = calls.source[<<r, UNSPLASH>>]
    /\ (context # NoContext /\ 1 <= round /\ r <= round) =>
         /\ context.search_queries[r] # NoQuery =>
              calls.source[<<r, PEXELS>>] # <<>>
         /\ (SERP_KEY /\ context.serp_queries # <<>>
                /\ context.serp_queries[r] # NoQuery) =>
              calls.source[<<r, SERP>>] # <<>>
    /\ r > round => \A s \in Sources : calls.source[<<r, s>>] = <<>>

\* C21 witness: round 3 is fetching; the three rounds searched with the
\* three variants, each with its own stock and web query.
C21_Witness ==
  /\ pc = "fetching"
  /\ round = 3
  /\ \A r \in Rounds :
       /\ calls.source[<<r, PEXELS>>] = <<Query("stock", r)>>
       /\ calls.source[<<r, UNSPLASH>>] = <<Query("stock", r)>>
       /\ calls.source[<<r, SERP>>] = <<Query("web", r)>>

\* --------------------------------- a named company, web search unconfigured

\* How many candidates the stock sources return together in round r of the
\* scenario: five in round 1, one in round 2.
StoryTotal(r) == IF r = 1 THEN 5 ELSE IF r = 2 THEN 1 ELSE 0

\* The scores the judge gives in round r of the scenario.
StoryScores(r) == IF r = 1 THEN 4..6 ELSE {7}

InitStory == Init /\ ~SERP_KEY

\* The planner names an entity, leaves min_score out and gives a stock query
\* for every round.
StoryPlan ==
  /\ PlanReturns
  /\ context'.main_entity
  /\ context'.min_score = 0
  /\ context'.search_queries = StockPlan({})

\* A stock source returns its share of the round's candidates, in any split
\* between the two sources.
StorySource ==
  /\ pc = "fetching"
  /\ \E s \in {PEXELS, UNSPLASH} :
       /\ pending[s].status = "pending"
       /\ \E n \in 0..(StoryTotal(round) - Delivered(pending)) :
            /\ (\A o \in {PEXELS, UNSPLASH} \ {s} : pending[o].status # "pending")
                 => n = StoryTotal(round) - Delivered(pending)
            /\ pending' = [pending EXCEPT ![s] =
                 [status |-> "fulfilled", value |-> SourceResult(s, n, round)]]
  /\ UNCHANGED <<pc, SERP_KEY, peer, outcomes, context, threshold, round, candidates, results,
                 imageResult, costs, response, calls, minScore>>

\* A judge call settles with one of the round's scores, unflagged.
StoryJudge ==
  /\ pc = "scoring"
  /\ \E i \in 1..Len(results), sc \in StoryScores(round), u \in Usages :
       /\ results[i].status = "pending"
       /\ results' = [results EXCEPT ![i] = Fulfilled(sc, FALSE, u)]
  /\ UNCHANGED <<pc, SERP_KEY, peer, outcomes, context, threshold, round, pending, candidates,
                 imageResult, costs, response, calls, minScore>>

NextStory ==
  \/ Receive
  \/ StoryPlan
  \/ StorySource
  \/ FetchReturns
  \/ StoryJudge
  \/ BatchReturns
  \/ DownloadReturns
  \/ DownloadFails
  \/ UploadReturns
  \/ UploadFails

SpecStory == InitStory /\ [][NextStory]_vars

\* C22: in the scenario the base threshold is 7; round 1 scores its five
\* stock candidates against 7 and returns no winner; round 2 scores its one
\* candidate against 6 and accepts it with its score of 7; round 3 and the
\* generative provider are never called, nor is the web search.
C22_SecondRoundAccepts ==
  /\ threshold \in {0, DefaultThreshold}
  /\ round \in 0..2
  /\ pc # "generating" /\ calls.dalle = 0
  /\ \A s \in Sources : calls.source[<<3, s>>] = <<>>
  /\ \A r \in Rounds : calls.source[<<r, SERP>>] = <<>>
  /\ round = 1 => imageResult = Null
  /\ (pc = "scoring" /\ round = 1) =>
       (minScore = 7 /\ Len(candidates) = 5 /\ imageResult = Null)
  /\ (pc = "scoring" /\ round = 2) =>
       (minScore = 6 /\ Len(candidates) = 1 /\ imageResult = Null)
  /\ pc \in {"downloading", "uploading", "responded"} =>
       /\ round = 2
       /\ imageResult = Scored(candidates[1], Fulfilled(7, FALSE, <<>>))
       /\ imageResult.round = 2
       /\ costs.vision_scoring.calls = 6
  /\ response.success => response.image.score = 7

\* C22 witness: the request was answered with the round 2 candidate scored
\* 7, six judge calls metered, both stock sources having been called in
\* rounds 1 and 2.
C22_Witness ==
  /\ pc = "responded"
  /\ response.success
  /\ response.image.score = 7
  /\ response.image.round = 2
  /\ response.cost_breakdown.vision_scoring.calls = 6
  /\ \A r \in {1, 2} : calls.source[<<r, PEXELS>>] # <<>>
                          /\ calls.source[<<r, UNSPLASH>>] # <<>>

\* ------------------------------------------------------ termination

\* What the run-time guarantees: a continuation whose awaited promises have
\* all settled is run, and downloadImage settles (its request carries
\* timeout: 30000). The planner and the upload are taken to answer as well.
\* The requests of searchPexels, searchUnsplash, searchSerpApi, scoreImage
\* and generateWithDalle carry no timeout: nothing makes them settle.
Fairness ==
  /\ WF_vars(RejectEmpty \/ Receive)
  /\ WF_vars(PlanRequestFails \/ PlanParseFails \/ PlanReturns)
  /\ WF_vars(FetchReturns)
  /\ WF_vars(BatchReturns)
  /\ WF_vars(DownloadReturns \/ DownloadFails)
  /\ WF_vars(UploadReturns \/ UploadFails)

SpecLive == Spec /\ Fairness

\* C23: every request eventually ends with a response, success or failure.
C23_EveryRequestTerminates == <>(pc = "responded")

\* ------------------------------------------------- two requests at once

\* The handler invocation that is running: its locals, and its request.
Running ==
  [id |-> 3 - peer.id, pc |-> pc, context |-> context, threshold |-> threshold,
   round |-> round, pending |-> pending, candidates |-> candidates,
   results |-> results, imageResult |-> imageResult, costs |-> costs,
   response |-> response, calls |-> calls, minScore |-> minScore]

\* Faulty variant: costs is one object of the module, seen by both
\* invocations, and not a local of each.
SwitchShared ==
  /\ peer' = Running
  /\ pc' = peer.pc
  /\ context' = peer.context
  /\ threshold' = peer.threshold
  /\ round' = peer.round
  /\ pending' = peer.pending
  /\ candidates' = peer.candidates
  /\ results' = peer.results
  /\ imageResult' = peer.imageResult
  /\ response' = peer.response
  /\ calls' = peer.calls
  /\ minScore' = peer.minScore
  /\ UNCHANGED <<SERP_KEY, outcomes, costs>>

\* The event loop turns to the other invocation: at an await the running
\* handler is suspended with its locals, and the other one's continuation
\* runs with its own.
Switch ==
  /\ peer' = Running
  /\ pc' = peer.pc
  /\ context' = peer.context
  /\ threshold' = peer.threshold
  /\ round' = peer.round
  /\ pending' = peer.pending
  /\ candidates' = peer.candidates
  /\ results' = peer.results
  /\ imageResult' = peer.imageResult
  /\ costs' = peer.costs
  /\ response' = peer.response
  /\ calls' = peer.calls
  /\ minScore' = peer.minScore
  /\ UNCHANGED <<SERP_KEY, outcomes>>

\* Two requests have arrived; the handler of request 1 is about to run.
InitTwo ==
  /\ pc = "received"
  /\ SERP_KEY = TRUE
  /\ context = NoContext
  /\ threshold = 0
  /\ round = 0
  /\ pending = [s \in Sources |-> NotCalled]
  /\ candidates = <<>>
  /\ results = <<>>
  /\ imageResult = Null
  /\ costs = freshCosts
  /\ response = NoResponse
  /\ calls = NoCalls
  /\ minScore = 0
  /\ outcomes = NoOutcomes
  /\ peer = [id |-> 2, pc |-> "received", context |-> NoContext,
             threshold |-> 0, round |-> 0,
             pending |-> [s \in Sources |-> NotCalled], candidates |-> <<>>,
             results |-> <<>>, imageResult |-> Null, costs |-> freshCosts,
             response |-> NoResponse, calls |-> NoCalls, minScore |-> 0]

\* The planner gives web queries only, for all three rounds.
TwoPlan ==
  /\ PlanReturns
  /\ context' = [min_score |-> 0, main_entity |-> TRUE,
                 search_queries |-> StockPlan(Rounds),
                 serp_queries |-> SerpPlan({})]

\* The web search fails or returns at most one candidate.
TwoSource ==
  /\ SourceSettles
  /\ Len(pending'[SERP].value) <= 1

\* The judge fails, or scores 1 or 10 without a flag.
TwoJudge ==
  /\ JudgeSettles
  /\ \A i \in 1..Len(results') :
       results'[i].status = "fulfilled" =>
         (results'[i].score \in {1, 10} /\ ~results'[i].has_forbidden_brand)

NextTwo ==
  \/ Switch
  \/ Receive
  \/ TwoPlan
  \/ TwoSource
  \/ FetchReturns
  \/ TwoJudge
  \/ BatchReturns
  \/ DalleReturns
  \/ DalleFails
  \/ DownloadReturns
  \/ UploadReturns

SpecTwo == InitTwo /\ [][NextTwo]_vars

\* ------------------------------------------------------ ledger ownership

\* Request i as it stands: running, or suspended.
Request(i) == IF peer.id = i THEN peer ELSE Running

\* The ledger of q holds what q's own calls metered and nothing more: one
\* planner reply once q is past planning, no more web searches than those of
\* q's own that have settled, no more judge calls than the batches of q's
\* own that were reduced, the generated image only if it is q's image; and
\* q's response returns the counts of q's ledger.
OwnLedger(q) ==
  LET invoked  == Len(q.calls.source[<<1, SERP>>])
                    + Len(q.calls.source[<<2, SERP>>])
                    + Len(q.calls.source[<<3, SERP>>])
      inFlight == IF q.pending[SERP].status = "pending" THEN 1 ELSE 0
      reduced  == IF q.pc \in {"fetching", "scoring"} THEN q.round - 1
                  ELSE q.round
  IN  /\ \E u \in Usages :
           q.costs.keyword_extraction.input_tokens
             = (IF q.pc \in {"received", "planning"} THEN 0 ELSE u.prompt_tokens)
      /\ q.costs.serp_api.calls <= invoked - inFlight
      /\ q.costs.vision_scoring.calls <= reduced
      /\ q.costs.dalle3.calls = (IF q.imageResult.source = DALLE THEN 1 ELSE 0)
      /\ q.response.success =>
           /\ q.response.cost_breakdown.serp_api.calls = q.costs.serp_api.calls
           /\ q.response.cost_breakdown.vision_scoring.calls
                = q.costs.vision_scoring.calls
           /\ q.response.cost_breakdown.dalle3.calls = q.costs.dalle3.calls
           /\ q.response.cost_breakdown.keyword_extraction
                = [q.costs.keyword_extraction EXCEPT
                     !.usd = q.response.cost_breakdown.keyword_extraction.usd]

\* C24: with two requests served at once, their awaits interleaved in any
\* order, each request's ledger and returned breakdown hold only what its own
\* calls metered, and a ledger changes only in a step of the handler of its
\* own request: no step of one request, and no hand-over between the two,
\* changes the other's ledger.
C24_LedgerOwnedByRequest ==
  [][\A i \in {1, 2} :
       /\ OwnLedger(Request(i))
       /\ OwnLedger(Request(i)')
       /\ Request(i)'.costs # Request(i).costs =>
            (peer.id # i /\ peer'.id # i)]_vars

\* C24 witness: both requests are in flight with different ledgers: request 1
\* awaits the generated image after two metered web searches and one judge
\* call, request 2 awaits the judge of its round 1 with one web search
\* metered.
C24_Witness ==
  /\ Request(1).pc = "generating"
  /\ Request(1).costs.serp_api.calls = 2
  /\ Request(1).costs.vision_scoring.calls = 1
  /\ Request(2).pc = "scoring"
  /\ Request(2).round = 1
  /\ Request(2).costs.serp_api.calls = 1
  /\ Request(2).costs.vision_scoring.calls = 0

\* ------------------------------------------------------ one response

\* The response as it must be in any state: none before the handler has
\* ended; a success with the accepted image and the breakdown of the ledger;
\* or a failure with a message, no image and no breakdown.
WellFormedResponse ==
  /\ pc = "responded" <=> response # NoResponse
  /\ response.success =>
       /\ response.status = 200 /\ response.error = ""
       /\ response.image = imageResult
       /\ response.image.source \in Sources \cup {DALLE}
       /\ response.image.source \in Sources =>
            (~response.image.has_forbidden_brand /\ calls.dalle = 0
               /\ response.image.score >= MinScoreArg(threshold, response.image.round))
       /\ response.image.source = DALLE =>
            (NoRoundWon /\ costs.dalle3.calls = 1)
       /\ calls.download = 1 /\ calls.upload = 1
       /\ response.cost_breakdown \in Breakdowns(costs)
  /\ (pc = "responded" /\ ~response.success) =>
       /\ response.status \in {400, 500}
       /\ response.error # ""
       /\ response.image = Null
       /\ response.cost_breakdown = freshCosts

\* C25: a request gets one response, never changed once sent, which is
\* either a success carrying the accepted candidate (a round's winner that
\* cleared its round's threshold, or the generated image) and the cost
\* breakdown, or a failure with a message and no candidate; a failure after
\* a candidate was accepted carries nothing of it.
C25_AllOrNothing ==
  [][/\ WellFormedResponse
     /\ WellFormedResponse'
     /\ response # NoResponse => response' = response]_vars

\* C25 witness: a round's winner was accepted and downloaded, the upload
\* failed: the response is a failure without image or breakdown.
C25_Witness ==
  /\ pc = "responded"
  /\ ~response.success
  /\ response.error = "upload failed"
  /\ imageResult.source \in Sources
  /\ costs.vision_scoring.calls > 0
  /\ response.image = Null
  /\ response.cost_breakdown = freshCosts

\* ------------------------------------------------------ ties

\* Indexes of the eligible candidates that hold the highest eligible score.
TopIdx == {i \in EligibleIdx : results[i].score = MaxScore(EligibleIdx)}

\* The least index of S (S non-empty).
First(S) == CHOOSE i \in S : \A j \in S : i <= j

\* C26: when the reduction returns a winner, it is the eligible candidate
\* with the highest score that stands earliest in the batch, so among equal
\* scores of one interleave step the web-search candidate wins over the
\* Pexels one and the Pexels one over the Unsplash one, in whatever order the
\* judge calls completed.
C26_EarliestOfTiedWins ==
  (pc = "returned" /\ imageResult # Null) =>
    /\ imageResult = Scored(candidates[First(TopIdx)], results[First(TopIdx)])
    /\ WinnerIdx = {First(TopIdx)}
    /\ \A i \in TopIdx : i # First(TopIdx) =>
         \/ candidates[i].idx > imageResult.idx
         \/ /\ candidates[i].idx = imageResult.idx
            /\ Priority(candidates[i].source) > Priority(imageResult.source)

\* C26 witness: the Pexels, Unsplash and second web-search candidates tie on
\* 10, the first web-search candidate scored lower; the Pexels one wins.
C26_Witness ==
  /\ pc = "returned"
  /\ Len(candidates) = 4
  /\ results[1].status = "fulfilled" /\ results[1].score = 6
  /\ \A i \in 2..4 : i \in EligibleIdx /\ results[i].score = 10
  /\ imageResult.source = PEXELS
  /\ imageResult.idx = 1

\* ------------------------------------------------------ barriers

\* Every judge call of the batch has settled.
AllJudged == \A i \in 1..Len(results) : results[i].status # "pending"

\* Between two states, the promises of p either stay as they are or one that
\* was pending settles; none is withdrawn, restarted or changed.
OnlySettling(p, q, I) ==
  \A x \in I : q[x] = p[x] \/ (p[x].status = "pending" /\ q[x].status # "pending")

\* C27: the handler leaves the fetch of a round only when every source call
\* of the round has settled, and the judge calls of the round start in that
\* step, one per candidate; it leaves the scoring of a round only when every
\* judge call has settled; and while it waits, a source or judge call that
\* fails leaves its siblings as they are, pending or settled.
C27_TwoBarriers ==
  [][/\ (pc = "fetching" /\ (pc' # "fetching" \/ round' # round)) => AllSettled
     /\ (pc' = "scoring" /\ pc # "scoring") =>
          /\ pc = "fetching" /\ AllSettled /\ round' = round
          /\ Len(results') = Len(candidates')
          /\ \A i \in 1..Len(results') : results'[i] = Unsettled
     /\ (pc = "scoring" /\ pc' # "scoring") => AllJudged
     /\ (pc = "fetching" /\ pc' = "fetching" /\ round' = round) =>
          OnlySettling(pending, pending', Sources)
     /\ (pc = "scoring" /\ pc' = "scoring") =>
          /\ candidates' = candidates
          /\ OnlySettling(results, results', 1..Len(results))]_vars

\* C27 witness: in round 1 the web search has failed, Pexels has returned a
\* candidate and Unsplash is still awaited: the round has not moved on.
C27_Witness ==
  /\ pc = "fetching"
  /\ round = 1
  /\ pending[SERP].status = "rejected"
  /\ pending[PEXELS].status = "fulfilled"
  /\ Len(pending[PEXELS].value) = 1
  /\ pending[UNSPLASH].status = "pending"
  /\ candidates = <<>>
  /\ results = <<>>

\* ------------------------------------------------------ no retry

\* C28: no call is made twice. The planner is called once, in the step that
\* takes the request in; a source is called at most once per round, in the
\* step that starts the round and in no later one; the judge is called once
\* per candidate of a batch and a failed judge call stays failed; the
\* generative provider, the download and the upload are called at most once.
C28_NoCallIsRetried ==
  [][/\ calls'.planner <= 1
     /\ calls'.planner # calls.planner => pc = "received"
     /\ \A x \in Rounds \X Sources :
          /\ Len(calls'.source[x]) <= 1
          /\ calls'.source[x] # calls.source[x] =>
               (calls.source[x] = <<>> /\ round' = x[1] /\ round = x[1] - 1)
     /\ calls'.dalle <= 1 /\ calls'.download <= 1 /\ calls'.upload <= 1
     /\ pc' = "scoring" => Len(results') = Len(candidates')
     /\ (pc = "scoring" /\ pc' = "scoring") =>
          \A i \in 1..Len(results) :
            results[i].status # "pending" => results'[i] = results[i]
     /\ (pc = "fetching" /\ pc' = "fetching" /\ round' = round) =>
          \A s \in Sources :
            pending[s].status # "pending" => pending'[s] = pending[s]]_vars

\* C28 witness: the web search failed in every round, no candidate was ever
\* scored and the generative call failed too: each source was called three
\* times in all, the planner and the generative provider once.
C28_Witness ==
  /\ pc = "responded"
  /\ response.error = "All image sources failed"
  /\ calls.planner = 1
  /\ \A x \in Rounds \X Sources : Len(calls.source[x]) = 1
  /\ costs.serp_api.calls = 0
  /\ costs.vision_scoring.calls = 0
  /\ calls.dalle = 1

\* ------------------------------------------------------ monotone ledger

\* Ledger a holds at most what ledger b holds, entry by entry.
LedgerLeq(a, b) ==
  /\ a.keyword_extraction.input_tokens <= b.keyword_extraction.input_tokens
  /\ a.keyword_extraction.output_tokens <= b.keyword_extraction.output_tokens
  /\ a.keyword_extraction.usd <= b.keyword_extraction.usd
  /\ a.vision_scoring.calls <= b.vision_scoring.calls
  /\ a.vision_scoring.input_tokens <= b.vision_scoring.input_tokens
  /\ a.vision_scoring.output_tokens <= b.vision_scoring.output_tokens
  /\ a.vision_scoring.usd <= b.vision_scoring.usd
  /\ a.serp_api.calls <= b.serp_api.calls
  /\ a.serp_api.usd <= b.serp_api.usd
  /\ a.dalle3.calls <= b.dalle3.calls
  /\ a.dalle3.usd <= b.dalle3.usd
  /\ a.total_usd <= b.total_usd

\* C29: no step of a request lowers or resets an entry of its ledger: every
\* token count, call count and cost, and the total, is after a step at least
\* what it was before.
C29_LedgerNeverDecreases ==
  [][LedgerLeq(costs, costs')]_vars

\* C29 witness: a finalized ledger in which every meter has counted: the
\* planner, judge calls, a web search and the generated image.
C29_Witness ==
  /\ pc = "responded"
  /\ response.success
  /\ costs.keyword_extraction.input_tokens > 0
  /\ costs.vision_scoring.calls = 3
  /\ costs.serp_api.calls = 2
  /\ costs.dalle3.calls = 1
  /\ costs.total_usd
       = costs.keyword_extraction.usd + costs.vision_scoring.usd
         + 2 * PRICE.serp + PRICE.dalle3

\* ------------------------------------------------------ phases in order

\* Calls are outstanding only in the phase that awaits them, and each phase
\* has behind it what must come before it.
PhasesApart ==
  /\ (\E s \in Sources : pending[s].status = "pending") => pc = "fetching"
  /\ (\E i \in 1..Len(results) : results[i].status = "pending") => pc = "scoring"
  /\ pc \in {"received", "planning"} =>
       /\ round = 0 /\ calls.dalle = 0
       /\ \A x \in Rounds \X Sources : calls.source[x] = <<>>
  /\ pc = "fetching" => (results = <<>> /\ candidates = <<>> /\ calls.dalle = 0)
  /\ pc = "scoring" => (calls.dalle = 0 /\ \A s \in Sources : pending[s] = NotCalled)
  /\ calls.dalle = 1 => (round = 3 /\ imageResult.source \notin Sources)
  /\ pc = "generating" =>
       (imageResult = Null /\ results = <<>>
          /\ \A s \in Sources : pending[s] = NotCalled)

\* C30: the planner has returned before any source is called; round N + 1
\* starts only from round N, in the step in which round N's source calls
\* have all settled on an empty batch or its judge calls have all settled
\* without a winner; the generative call starts only so from round 3; and
\* at no time are calls of two rounds, or of a round and the generative
\* provider, outstanding together.
C30_PhasesInOrder ==
  [][/\ PhasesApart /\ PhasesApart'
     /\ round' # round =>
          /\ round' = round + 1
          /\ round = 0 => (pc = "planning" /\ context' # NoContext)
          /\ round >= 1 =>
               /\ \/ pc = "fetching" /\ AllSettled
                  \/ pc = "scoring" /\ AllJudged
               /\ imageResult' = Null
     /\ (pc' = "generating" /\ pc # "generating") =>
          /\ round = 3
          /\ \/ pc = "fetching" /\ AllSettled
             \/ pc = "scoring" /\ AllJudged
          /\ imageResult' = Null]_vars

\* C30 witness: the generated image is awaited after three rounds in each
\* of which a batch was fetched and scored without a winner.
C30_Witness ==
  /\ pc = "generating"
  /\ round = 3
  /\ costs.vision_scoring.calls = 3
  /\ \A r \in Rounds : \E s \in Sources : calls.source[<<r, s>>] # <<>>
  /\ imageResult = Null

\* ------------------------------------------------ a low base threshold

\* The min_score values of the scenario: the two lowest of the rubric.
LowBases == {1, 2}

\* extractKeywords returned a context whose min_score is 1 or 2, with a
\* stock query for every round.
LowPlan ==
  /\ pc = "planning"
  /\ \E m \in LowBases, sq \in {StockPlan({})}, gq \in SerpPlans, u \in Usages :
       LET ctx == [min_score |-> m, main_entity |-> FALSE,
                   search_queries |-> sq, serp_queries |-> gq]
       IN  /\ context' = ctx
           /\ threshold' = (IF m # 0 THEN m ELSE DefaultThreshold)
           /\ StartRound(ctx, 1, AccumulateKeyword(costs, u), calls)
  /\ UNCHANGED <<SERP_KEY, peer, outcomes, imageResult, response, minScore>>

NextLow ==
  \/ Receive
  \/ LowPlan
  \/ SourceSettles
  \/ FetchReturns
  \/ JudgeSettles
  \/ BatchReturns
  \/ DalleReturns
  \/ DalleFails
  \/ DownloadReturns
  \/ DownloadFails
  \/ UploadReturns
  \/ UploadFails

SpecLow == Init /\ [][NextLow]_vars

\* The batch of round 3 returns, the base threshold being 1 or 2 and some
\* candidate being scored and unflagged: the best of them is the winner.
LowRoundAccepts ==
  (/\ pc = "scoring" /\ pc' # "scoring"
   /\ round = 3
   /\ threshold \in LowBases
   /\ EligibleIdx # {})
    => /\ imageResult' # Null
       /\ imageResult'.score = MaxScore(EligibleIdx)
       /\ pc' = "downloading"

\* A batch is handed to the judges after an earlier batch of the request was
\* judged (the vision meter has counted): its threshold is below the one of
\* the earlier batch.
LoweredSinceLastBatch ==
  (/\ pc = "fetching" /\ pc' = "scoring"
   /\ costs.vision_scoring.calls > 0)
    => minScore' < minScore

\* C31: the threshold of a round is never clamped to the score range: the
\* batch of round r is held to base - (r - 1), which for a base of 1 or 2 is
\* 0 or -1 in round 3, below every score of the rubric, so that round accepts
\* whenever a candidate was scored and is not brand-violating; the threshold
\* is never above the base and goes down from one judged batch to the next.
C31_ThresholdNeverClamped ==
  /\ [](pc = "scoring" =>
          /\ minScore = threshold - (round - 1)
          /\ minScore <= threshold
          /\ (round = 3 /\ threshold \in LowBases) =>
               /\ minScore \in {0, -1}
               /\ \A i \in EligibleIdx : results[i].score >= minScore)
  /\ [][LowRoundAccepts /\ LoweredSinceLastBatch]_vars

\* C31 witness: with a base threshold of 1, round 3 was held to -1 and its
\* candidate, scored 1, was accepted after round 2 had judged a batch
\* without a winner.
C31_Witness ==
  /\ pc = "downloading"
  /\ threshold = 1
  /\ round = 3
  /\ minScore = -1
  /\ imageResult # Null
  /\ imageResult.score = 1
  /\ costs.vision_scoring.calls >= 2

\* ------------------------------------- fixed answers, any completion order

\* How a source call ends in the scenario: it fails, or returns no candidate,
\* or one.
SourceFates == {"rejected", "empty", "one"}

\* The judge's answers of the scenario, as <<score, has_forbidden_brand>>:
\* against the default threshold a 10 passes in round 1, a 6 in round 2 and
\* a 5 in round 3.
OrderAnswers == {<<5, FALSE>>, <<6, FALSE>>, <<10, FALSE>>, <<10, TRUE>>}

\* How a scoreImage call ends in the scenario.
JudgeFates ==
  {Rejected} \cup {Fulfilled(a[1], a[2], u) : a \in OrderAnswers, u \in Usages}

\* The fixed inputs of a request: what each source does when called and what
\* the judge makes of each source's candidate.
Outcomes == [source : [Sources -> SourceFates], judge : [Sources -> JudgeFates]]

\* The promise of source s in round r once settled as fate f.
SettledAs(f, s, r) ==
  IF f = "rejected" THEN [status |-> "rejected", value |-> <<>>]
  ELSE [status |-> "fulfilled",
        value |-> SourceResult(s, IF f = "one" THEN 1 ELSE 0, r)]

InitOrder ==
  /\ pc = "received"
  /\ SERP_KEY \in BOOLEAN
  /\ peer = NoPeer
  /\ outcomes \in Outcomes
  /\ context = NoContext
  /\ threshold = 0
  /\ round = 0
  /\ pending = [s \in Sources |-> NotCalled]
  /\ candidates = <<>>
  /\ results = <<>>
  /\ imageResult = Null
  /\ costs = freshCosts
  /\ response = NoResponse
  /\ calls = NoCalls
  /\ minScore = 0

\* The planner names an entity, leaves min_score out and gives a stock and a
\* web query for every round.
OrderPlan ==
  /\ PlanReturns
  /\ context' = [min_score |-> 0, main_entity |-> TRUE,
                 search_queries |-> StockPlan({}),
                 serp_queries |-> SerpPlan({})]

\* Any one of the pending source calls settles next, as the inputs fix it.
OrderSource ==
  /\ pc = "fetching"
  /\ \E s \in Sources :
       /\ pending[s].status = "pending"
       /\ pending' = [pending EXCEPT ![s] = SettledAs(outcomes.source[s], s, round)]
       /\ costs' = IF s = SERP /\ outcomes.source[s] # "rejected"
                   THEN SerpMetered(costs) ELSE costs
  /\ UNCHANGED <<pc, SERP_KEY, peer, outcomes, context, threshold, round, candidates,
                 results, imageResult, response, calls, minScore>>

\* Faulty variant: the batch is a race, the first judge call to complete
\* with an unflagged score at or above the threshold wins at once.
OrderJudgeRace ==
  /\ pc = "scoring"
  /\ \E i \in 1..Len(results) :
       /\ results[i].status = "pending"
       /\ LET o == outcomes.judge[candidates[i].source]
          IN  IF /\ o.status = "fulfilled"
                 /\ ~o.has_forbidden_brand
                 /\ o.score >= minScore
              THEN /\ imageResult' = Scored(candidates[i], o)
                   /\ StartDownload(AccumulateVision(costs, o.usage), calls)
              ELSE /\ results' = [results EXCEPT ![i] = o]
                   /\ UNCHANGED <<pc, round, pending, candidates, imageResult,
                                  costs, calls>>
  /\ UNCHANGED <<SERP_KEY, peer, outcomes, context, threshold, response, minScore>>

\* Any one of the pending scoreImage calls settles next, as the inputs fix
\* it; Promise.allSettled keeps its outcome at the candidate's position.
OrderJudge ==
  /\ pc = "scoring"
  /\ \E i \in 1..Len(results) :
       /\ results[i].status = "pending"
       /\ results' = [results EXCEPT ![i] = outcomes.judge[candidates[i].source]]
  /\ UNCHANGED <<pc, SERP_KEY, peer, outcomes, context, threshold, round, pending,
                 candidates, imageResult, costs, response, calls, minScore>>

NextOrder ==
  \/ Receive
  \/ OrderPlan
  \/ OrderSource
  \/ FetchReturns
  \/ OrderJudge
  \/ BatchReturns
  \/ DalleReturns
  \/ DalleFails
  \/ DownloadReturns
  \/ DownloadFails
  \/ UploadReturns
  \/ UploadFails

SpecOrder == InitOrder /\ [][NextOrder]_vars

\* The ledger of a request that has only planned so far.
Planned(c) == [freshCosts EXCEPT !.keyword_extraction = c.keyword_extraction]

\* The promises of round r as the fixed inputs settle them.
FixedPromises(r) ==
  [s \in Sources |-> IF Applicable(context, s, r)
                     THEN Caught(SettledAs(outcomes.source[s], s, r))
                     ELSE NotCalled]

\* The ledger after the source calls of round r.
FixedFetched(r, c) ==
  IF Applicable(context, SERP, r) /\ outcomes.source[SERP] # "rejected"
  THEN SerpMetered(c) ELSE c

\* What the waterfall yields from round r on, the ledger being c, when the
\* rounds are worked through one call after another in source order: the
\* winner, its round and the ledger.
RECURSIVE FixedFrom(_, _)
FixedFrom(r, c) ==
  LET batch   == fetchRound(FixedPromises(r))
      judged  == [i \in 1..Len(batch) |-> outcomes.judge[batch[i].source]]
      fetched == FixedFetched(r, c)
      out     == IF Len(batch) > 0
                 THEN pickBestFromBatch(batch, judged,
                                        MinScoreArg(threshold, r), fetched)
                 ELSE [best |-> Null, costs |-> fetched]
  IN  IF out.best # Null \/ r = 3
      THEN [best |-> out.best, round |-> r, costs |-> out.costs]
      ELSE FixedFrom(r + 1, out.costs)

\* The waterfall is over: a winner is held or the generative provider is on.
WaterfallOver ==
  \/ pc \in {"generating", "downloading", "uploading"}
  \/ pc = "responded" /\ calls.dalle + calls.download > 0

\* C32: with the planner's reply, every source's result and every candidate's
\* judge outcome fixed, the accepted candidate, the round it is accepted in
\* and the ledger's web-search and judge meters are the same whatever the
\* order in which the source calls and the judge calls of a round complete:
\* they are those of working through the calls one after another.
C32_OrderOfCompletionIrrelevant ==
  WaterfallOver =>
    LET want == FixedFrom(1, Planned(costs))
    IN  /\ round = want.round
        /\ costs.serp_api = want.costs.serp_api
        /\ costs.vision_scoring = want.costs.vision_scoring
        /\ IF calls.dalle > 0
           THEN want.best = Null
           ELSE imageResult = want.best

\* C32 witness: three sources each returned a candidate and the judge passed
\* two of them with different scores; the request was answered with the
\* higher one, three judge calls and one web search being metered.
C32_Witness ==
  /\ pc = "responded"
  /\ response.success
  /\ round = 1
  /\ Len(candidates) = 3
  /\ \A s \in Sources : outcomes.source[s] = "one"
  /\ outcomes.judge[SERP] = Fulfilled(6, FALSE, CHOOSE u \in Usages : TRUE)
  /\ outcomes.judge[PEXELS].score = 10 /\ ~outcomes.judge[PEXELS].has_forbidden_brand
  /\ outcomes.judge[UNSPLASH].score = 10 /\ ~outcomes.judge[UNSPLASH].has_forbidden_brand
  /\ response.image.source = PEXELS
  /\ response.cost_breakdown.vision_scoring.calls = 3
  /\ response.cost_breakdown.serp_api.calls = 1

\* ------------------------------------------------ acceptance is final

\* A candidate has been accepted and is being persisted or published.
Accepted == pc \in {"downloading", "uploading"}

\* The step leaves the waterfall as it is: no source, judge or generative
\* call is issued, no round is entered and the accepted candidate stays.
WaterfallUntouched ==
  /\ imageResult' = imageResult
  /\ round' = round
  /\ calls'.source = calls.source
  /\ calls'.dalle = calls.dalle
  /\ pending' = pending
  /\ results' = results
  /\ pc' \notin {"fetching", "scoring", "generating"}

\* C33: once a candidate is accepted, by a round or by the generative
\* provider, no step returns to the waterfall: the download and the upload
\* are each tried once, and a failure of either ends the request with a
\* failure response, the accepted candidate being neither replaced by the
\* next-best one nor followed by a later round or a generated image.
C33_AcceptanceIsFinal ==
  /\ [](calls.download <= 1 /\ calls.upload <= 1)
  /\ [][Accepted =>
          /\ WaterfallUntouched
          /\ pc = "downloading" =>
               \/ pc' = "uploading"
               \/ pc' = "responded" /\ response' = Failure(500, "download failed")
          /\ pc = "uploading" =>
               \/ pc' = "responded" /\ response'.success
                    /\ response'.image = imageResult
               \/ pc' = "responded" /\ response' = Failure(500, "upload failed")]_vars

\* C33 witness: round 1 accepted a candidate, its download failed, and the
\* request ended there with a failure: rounds 2 and 3 and the generative
\* provider were never called.
C33_Witness ==
  /\ pc = "responded"
  /\ response = Failure(500, "download failed")
  /\ imageResult.source \in Sources
  /\ round = 1
  /\ calls.download = 1
  /\ calls.dalle = 0
  /\ \A s \in Sources : calls.source[<<2, s>>] = <<>> /\ calls.source[<<3, s>>] = <<>>

\* --------------------------- the sequential pickBestFromBatch of the past

\* for (const candidate of candidates) { try { const result = await
\* scoreImage(..); if (!result.has_forbidden_brand) scored.push(result); }
\* catch (e) { .. } }: the scored list after the candidates from the k-th on,
\* res[k] being what the k-th scoreImage call does.
RECURSIVE SequentialLoop(_, _, _, _)
SequentialLoop(cands, res, k, scored) ==
  IF k > Len(cands) THEN scored
  ELSE IF res[k].status = "rejected"
       THEN SequentialLoop(cands, res, k + 1, scored)
  ELSE LET result == Scored(cands[k], res[k])
       IN  SequentialLoop(cands, res, k + 1,
             IF ~result.has_forbidden_brand THEN Append(scored, result)
             ELSE scored)

\* The value the sequential pickBestFromBatch returns.
pickBestSequential(cands, res, floor) ==
  LET scored == SequentialLoop(cands, res, 1, <<>>)
  IN  IF Len(scored) = 0 THEN Null
      ELSE LET best == SortDesc(scored)[1]
           IN  IF best.score >= floor THEN best ELSE Null

\* C34: for every batch, every threshold and every assignment of judge
\* outcomes (a score, a brand flag, or a failure) to its candidates, the
\* parallel pickBestFromBatch returns what the sequential one of the past
\* returns on the same outcomes: the same winner, or null in both.
C34_SequentialAndParallelAgree ==
  pc = "returned" =>
    imageResult = pickBestSequential(candidates, results, minScore)

\* C34 witness: a batch whose first judge call failed, whose second
\* candidate was flagged with the top score and whose later candidates tie
\* below it: both reductions return the third candidate.
C34_Witness ==
  /\ pc = "returned"
  /\ Len(candidates) = 4
  /\ results[1].status = "rejected"
  /\ results[2].status = "fulfilled" /\ results[2].has_forbidden_brand
  /\ results[2].score = 10
  /\ 3 \in EligibleIdx /\ 4 \in EligibleIdx
  /\ results[3].score = 6 /\ results[4].score = 6
  /\ minScore <= 6
  /\ imageResult = Scored(candidates[3], results[3])
  /\ pickBestSequential(candidates, results, minScore) = imageResult

====
